---- MODULE Spec2Model ----
(***************************************************************************)
(* Worker scheduling of xingrin: the load-aware TaskDistributor            *)
(* (apps/engine/services/task_distributor.py), the worker heartbeat state  *)
(* machine and worker deletion (apps/engine/views/worker_views.py), the    *)
(* Load Registry they share, and the command executor of the scan workers  *)
(* (apps/scan/utils/command_executor.py).  Time is counted in seconds; the *)
(* clock advances TickStep seconds at a time and every timer of the        *)
(* program (telemetry TTL, update lock TTL, sleeps, command timeouts) is   *)
(* kept as the number of seconds left.  A SIGKILL takes effect at once.    *)
(***************************************************************************)
EXTENDS Integers, Sequences, FiniteSets, TLC

\* ---------------------------------------------------------------- bounds
NumWorkers == 2
NumThreads == 2
TickStep == 30
MaxUpdates == 2
NumCalls == 2

\* ------------------------------------------------------ program constants
LOAD_TTL == 15
LOCK_TTL == 60
HIGH_LOAD_WAIT_SECONDS == 60
TASK_SUBMIT_INTERVAL == 5
HIGH_LOAD_THRESHOLD == 85
CPU_WEIGHT == 7
MEM_WEIGHT == 3
SCAN_CPU_HIGH == 90
SCAN_MEM_HIGH == 80
SCAN_LOAD_CHECK_INTERVAL == 30
SCAN_COMMAND_STARTUP_DELAY == 5
ENABLE_COMMAND_LOGGING == TRUE

Workers == 1..NumWorkers
Calls == 1..NumCalls
OneCall == {1}
Threads == 1..NumThreads
SelThreads == {1}
Nil == 0

STATUS_CHOICES == {"pending", "deploying", "online", "offline", "updating", "outdated"}
SERVER_VERSION == "v2"
Versions == {"", "unknown", "v1", "v2"}

\* telemetry values a heartbeat may report (cpu_percent, memory_percent)
LoadVals == { <<20, 30>>, <<85, 85>>, <<92, 10>>, <<50, 95>> }
HbLoadVals == { <<20, 30>> }
TieLoadVals == { <<20, 30>>, <<92, 10>> }
NoLoad == [cpu |-> 0, mem |-> 0, ttl |-> 0]
NoSeen == [cpu |-> 0, mem |-> 0, live |-> FALSE]
NoHb == [w |-> Nil, pre |-> "", ver |-> "", free |-> FALSE, n |-> 0]
NoUpd == Nil
NoDestroy == [step |-> 0, purged |-> FALSE, thread |-> "none", response |-> 0, failed |-> 0]
\* host load psutil may report (cpu percent, memory percent)
HostLoads == { <<50, 50>>, <<90, 50>>, <<50, 80>> }
\* timeout arguments of the executor; 0 stands for None
ExecTimeout == 60
NoSample == [cpu |-> 0, mem |-> 0, taken |-> FALSE]
NoCmd == [pc |-> "idle", mode |-> "none", log |-> FALSE, timeout |-> 0, wait |-> 0,
          age |-> 0, sample |-> NoSample, polled |-> FALSE, slot |-> FALSE, handle |-> "none",
          timer |-> "none", tleft |-> 0, leader |-> "none", code |-> 0, kids |-> "none",
          killed |-> FALSE, steps |-> <<>>, result |-> "none",
          tail |-> "none", footers |-> 0]
NoPrev == [valid |-> FALSE, workers |-> <<>>, seen |-> [w \in Workers |-> NoSeen], best |-> Nil]

VARIABLES
    status,       \* WorkerNode.status of every row
    load,         \* Load Registry: worker id -> telemetry record, ttl = seconds left (0 = no key)
    lock,         \* agent_update_lock:<id>: seconds left (0 = no key)
    updating,     \* number of _async_update threads running per worker
    lastHb,       \* the heartbeat just processed: worker, status and lock before, version
    lastUpd,      \* the worker whose _async_update thread has just ended in failure
    row,          \* the WorkerNode row exists
    destroy,      \* progress of DELETE /workers/{id} and of its uninstall thread
    pc,           \* position of every dispatcher thread
    op,           \* the operation the thread runs
    workers,      \* local `workers` (get_online_workers result)
    seen,         \* local `loads` (get_all_loads result)
    cands,        \* workers appended to scored_workers or high_load_workers
    best,         \* value returned by select_best_worker
    waitLeft,     \* seconds left of the thread's time.sleep
    waited,       \* seconds elapsed while the thread slept in the high-load wait
    emitted,      \* all_workers_high_load signals sent by the current call
    docker,       \* "none" | "built" | "executed": docker command of the operation
    ret,          \* return value of the operation
    prev,         \* view and result of the preceding select_best_worker call
    ssh,          \* SSH connection of the operation's latest dispatch: none, open or closed
    sinceSubmit,  \* seconds since TaskDistributor._last_submit_time (-1: never set)
    minGap,       \* smallest distance seen between two passes of the throttle
    cmd,          \* the execute_and_wait / execute_stream invocations: locals and subprocess
    host,         \* host load as psutil reports it
    active,       \* _ACTIVE_COMMANDS
    psutil,       \* the psutil module could be imported
    stage,        \* state of every stage flow of every scan
    vuln,         \* the endpoints_vuln_scan_flow invocation: locals, futures and result
    directory,    \* table directory
    subdomain,    \* table subdomain
    host_port_mapping,   \* table host_port_mapping
    directory_snapshot,  \* table directory_snapshot
    nextId,       \* the id sequence of every table
    now,          \* the database clock
    scans,        \* ids of the Scan rows that exist
    sync,         \* outcome of the save_and_sync call just made
    last          \* history: the call just made, its outcome, whether it met stored rows

regVars == <<status, load, lock, updating, lastHb, lastUpd, row, destroy>>
cmdVars == <<cmd, host, active, psutil>>
scanVars == <<stage, vuln>>
dbVars == <<directory, subdomain, host_port_mapping, directory_snapshot, nextId, now, scans, sync,
            last>>
appVars == <<scanVars, dbVars>>
envVars == <<regVars, cmdVars, appVars>>
thrVars == <<pc, op, workers, seen, cands, best, waitLeft, waited, emitted, docker, ret, prev,
            ssh>>
subVars == <<sinceSubmit, minGap>>
vars == <<status, load, lock, updating, lastHb, lastUpd, row, destroy, pc, op, workers, seen, cands, best,
          waitLeft, waited, emitted, docker, ret, prev, ssh, sinceSubmit, minGap,
          cmd, host, active, psutil, stage, vuln, directory, subdomain, host_port_mapping,
          directory_snapshot, nextId, now, scans, sync, last>>

Range(s) == {s[i] : i \in 1..Len(s)}
Min(a, b) == IF a < b THEN a ELSE b
Max(a, b) == IF a > b THEN a ELSE b

is_local(w) == w = 1

\* ------------------------------------------------------------ Load Registry
is_online(w) == load[w].ttl > 0

get_all_loads(ids) ==
    [w \in Workers |->
        IF w \in ids /\ load[w].ttl > 0
        THEN [cpu |-> load[w].cpu, mem |-> load[w].mem, live |-> TRUE]
        ELSE NoSeen]

update_load(w, cpu, mem) ==
    load' = [load EXCEPT ![w] = [cpu |-> cpu, mem |-> mem, ttl |-> LOAD_TTL]]

Expire(l) == IF l.ttl > TickStep THEN [l EXCEPT !.ttl = l.ttl - TickStep] ELSE NoLoad

\* ------------------------------------------------------------ TaskDistributor
\* WorkerNode.Meta.ordering = ['-created_at']: newest row first
QuerysetOrder == [i \in 1..NumWorkers |-> NumWorkers + 1 - i]

IsDeployedOrUpdating(w) == status[w] \in {"online", "offline", "updating"}

IsDeployedOrPending(w) == status[w] \in {"online", "offline", "pending"}

IsDeployed(w) == status[w] \in {"online", "offline"}

get_online_workers ==
    SelectSeq(QuerysetOrder, LAMBDA w : row[w] /\ IsDeployed(w) /\ is_online(w))

Score(l) == CPU_WEIGHT * l.cpu + MEM_WEIGHT * l.mem

IsHighLoadAtThreshold(l) == l.cpu >= HIGH_LOAD_THRESHOLD \/ l.mem >= HIGH_LOAD_THRESHOLD

IsHighLoad(l) == l.cpu > HIGH_LOAD_THRESHOLD \/ l.mem > HIGH_LOAD_THRESHOLD

\* the (worker, score, cpu, mem) tuples of the scoring loop, rows without load skipped
Scored(ws, loads) ==
    LET withLoad == SelectSeq(ws, LAMBDA w : loads[w].live)
    IN [i \in 1..Len(withLoad) |->
           [w |-> withLoad[i], score |-> Score(loads[withLoad[i]]),
            cpu |-> loads[withLoad[i]].cpu, mem |-> loads[withLoad[i]].mem]]

scored_workers(ws, loads) ==
    SelectSeq(Scored(ws, loads), LAMBDA x : ~IsHighLoad(x))

high_load_workers(ws, loads) ==
    SelectSeq(Scored(ws, loads), LAMBDA x : IsHighLoad(x))

\* ties broken in turn: the first call keeps the queryset order, the next one reverses it
InsertByScoreInTurn(s, x) ==
    LET k == IF \E t \in Threads : prev[t].valid
             THEN Cardinality({i \in 1..Len(s) : s[i].score < x.score})
             ELSE Cardinality({i \in 1..Len(s) : s[i].score <= x.score})
    IN SubSeq(s, 1, k) \o <<x>> \o SubSeq(s, k + 1, Len(s))

\* list.sort(key=lambda x: x[1]): stable, ascending by score
InsertByScore(s, x) ==
    LET k == Cardinality({i \in 1..Len(s) : s[i].score <= x.score})
    IN SubSeq(s, 1, k) \o <<x>> \o SubSeq(s, k + 1, Len(s))

RECURSIVE SortByScore(_)
SortByScore(s) ==
    IF s = <<>> THEN <<>>
    ELSE InsertByScore(SortByScore(SubSeq(s, 1, Len(s) - 1)), s[Len(s)])

BestOf(s) == SortByScore(s)[1].w

NoWorkerResult(o) ==
    IF o = "scan" THEN <<FALSE, "no_worker", "none", Nil>> ELSE <<FALSE, "no_worker", "none">>

\* select_best_worker returns w to its caller.  A direct call ends here, with the
\* call's view (ws, loads, cs) kept for inspection; execute_scan_flow and
\* execute_delete_task go on, and the locals of select_best_worker are gone.
SelectReturns(t, w, ws, loads, cs) ==
    /\ best' = [best EXCEPT ![t] = w]
    /\ IF op[t] = "select"
       THEN /\ pc' = [pc EXCEPT ![t] = "done"]
            /\ workers' = [workers EXCEPT ![t] = ws]
            /\ seen' = [seen EXCEPT ![t] = loads]
            /\ cands' = [cands EXCEPT ![t] = cs]
            /\ UNCHANGED <<ret, docker, waitLeft, waited, emitted>>
       ELSE /\ workers' = [workers EXCEPT ![t] = <<>>]
            /\ seen' = [seen EXCEPT ![t] = [v \in Workers |-> NoSeen]]
            /\ cands' = [cands EXCEPT ![t] = {}]
            /\ waitLeft' = [waitLeft EXCEPT ![t] = 0]
            /\ waited' = [waited EXCEPT ![t] = 0]
            /\ emitted' = [emitted EXCEPT ![t] = 0]
            /\ IF w = Nil
               THEN /\ pc' = [pc EXCEPT ![t] = "done"]
                    /\ ret' = [ret EXCEPT ![t] = NoWorkerResult(op[t])]
                    /\ UNCHANGED docker
               ELSE /\ pc' = [pc EXCEPT ![t] = "exec"]
                    /\ docker' = [docker EXCEPT ![t] = "built"]
                    /\ UNCHANGED ret

\* select_best_worker, first half: workers = self.get_online_workers()
GetOnlineWorkers(t) ==
    /\ pc[t] = "get_workers"
    /\ IF get_online_workers = <<>>
       THEN SelectReturns(t, Nil, <<>>, seen[t], cands[t])
       ELSE /\ pc' = [pc EXCEPT ![t] = "get_loads"]
            /\ workers' = [workers EXCEPT ![t] = get_online_workers]
            /\ UNCHANGED <<best, ret, docker, seen, cands, waitLeft, waited, emitted>>
    /\ UNCHANGED <<envVars, subVars, op, prev, ssh>>

\* select_best_worker, second half: get_all_loads, the scoring loop and the choice
ScoreWorkers(t) ==
    LET loads == get_all_loads(Range(workers[t]))
        normal == scored_workers(workers[t], loads)
        high == high_load_workers(workers[t], loads)
        cs == {x.w : x \in Range(normal) \cup Range(high)}
    IN /\ pc[t] = "get_loads"
       /\ IF normal # <<>>
          THEN SelectReturns(t, BestOf(normal), workers[t], loads, cs)
          ELSE IF high # <<>>
          THEN /\ pc' = [pc EXCEPT ![t] = "high_load_sleep"]
               /\ waitLeft' = [waitLeft EXCEPT ![t] = HIGH_LOAD_WAIT_SECONDS]
               /\ seen' = [seen EXCEPT ![t] = loads]
               /\ cands' = [cands EXCEPT ![t] = cs]
               /\ UNCHANGED <<best, ret, docker, workers, waited, emitted>>
          ELSE SelectReturns(t, Nil, workers[t], loads, cs)
       /\ UNCHANGED <<envVars, subVars, op, prev, ssh>>

SleepCutShort(t) == TRUE

\* time.sleep(...) of thread t has returned
SleepOver(t) == waitLeft[t] <= 0

\* the sleep is over: sort the overloaded workers and send all_workers_high_load
HighLoadWake(t) ==
    /\ pc[t] = "high_load_sleep"
    /\ SleepOver(t)
    /\ emitted' = [emitted EXCEPT ![t] = emitted[t] + 1]
    /\ pc' = [pc EXCEPT ![t] = "high_load_return"]
    /\ UNCHANGED <<envVars, subVars, op, workers, seen, cands, best, waitLeft, waited,
                   docker, ret, prev, ssh>>

\* return best_worker of the degraded path
HighLoadReturn(t) ==
    /\ pc[t] = "high_load_return"
    /\ SelectReturns(t, BestOf(high_load_workers(workers[t], seen[t])),
                     workers[t], seen[t], cands[t])
    /\ UNCHANGED <<envVars, subVars, op, prev, ssh>>

ResetCall(t) ==
    /\ workers' = [workers EXCEPT ![t] = <<>>]
    /\ seen' = [seen EXCEPT ![t] = [w \in Workers |-> NoSeen]]
    /\ cands' = [cands EXCEPT ![t] = {}]
    /\ best' = [best EXCEPT ![t] = Nil]
    /\ waitLeft' = [waitLeft EXCEPT ![t] = 0]
    /\ waited' = [waited EXCEPT ![t] = 0]
    /\ emitted' = [emitted EXCEPT ![t] = 0]

\* a caller invokes select_best_worker()
StartSelect(t) ==
    /\ pc[t] = "idle"
    /\ pc' = [pc EXCEPT ![t] = "get_workers"]
    /\ op' = [op EXCEPT ![t] = "select"]
    /\ UNCHANGED <<envVars, subVars, workers, seen, cands, best, waitLeft, waited, emitted,
                   docker, ret, prev, ssh>>

\* the caller invokes select_best_worker() again right after the call returned
Reselect(t) ==
    /\ pc[t] = "done"
    /\ op[t] = "select"
    /\ prev' = [prev EXCEPT ![t] = [valid |-> TRUE, workers |-> workers[t],
                                    seen |-> seen[t], best |-> best[t]]]
    /\ ResetCall(t)
    /\ pc' = [pc EXCEPT ![t] = "get_workers"]
    /\ UNCHANGED <<envVars, subVars, op, docker, ret, ssh>>

\* the operation's result is consumed; the thread is free again
Finish(t) ==
    /\ pc[t] = "done"
    /\ ResetCall(t)
    /\ pc' = [pc EXCEPT ![t] = "idle"]
    /\ op' = [op EXCEPT ![t] = "none"]
    /\ docker' = [docker EXCEPT ![t] = "none"]
    /\ ret' = [ret EXCEPT ![t] = <<>>]
    /\ prev' = [prev EXCEPT ![t] = NoPrev]
    /\ ssh' = [ssh EXCEPT ![t] = "none"]
    /\ UNCHANGED <<envVars, subVars>>

\* the pass of the submit-interval throttle: _last_submit_time = time.time()
PassThrottle ==
    /\ minGap' = IF sinceSubmit < 0 THEN minGap ELSE Min(minGap, sinceSubmit)
    /\ sinceSubmit' = 0

\* execute_scan_flow up to the throttle: _wait_for_submit_interval sleeps or passes
StartScanFlow(t) ==
    /\ pc[t] = "idle"
    /\ op' = [op EXCEPT ![t] = "scan"]
    /\ IF sinceSubmit >= 0 /\ sinceSubmit < TASK_SUBMIT_INTERVAL
       THEN /\ pc' = [pc EXCEPT ![t] = "throttle_sleep"]
            /\ waitLeft' = [waitLeft EXCEPT ![t] = TASK_SUBMIT_INTERVAL - sinceSubmit]
            /\ UNCHANGED subVars
       ELSE /\ pc' = [pc EXCEPT ![t] = "get_workers"]
            /\ PassThrottle
            /\ UNCHANGED waitLeft
    /\ UNCHANGED <<envVars, workers, seen, cands, best, waited, emitted, docker, ret, prev, ssh>>

\* the throttle's sleep is over: record the submit time and go on to the selection
ThrottleWake(t) ==
    /\ pc[t] = "throttle_sleep"
    /\ SleepOver(t)
    /\ PassThrottle
    /\ pc' = [pc EXCEPT ![t] = "get_workers"]
    /\ UNCHANGED <<envVars, op, workers, seen, cands, best, waitLeft, waited, emitted,
                   docker, ret, prev, ssh>>

TaskTypes == {"targets", "organizations", "scans"}

\* execute_delete_task up to the selection
StartDeleteTask(t, task_type) ==
    /\ pc[t] = "idle"
    /\ op' = [op EXCEPT ![t] = "delete"]
    /\ IF task_type \notin TaskTypes
       THEN /\ pc' = [pc EXCEPT ![t] = "done"]
            /\ ret' = [ret EXCEPT ![t] = <<FALSE, "unsupported", "none">>]
       ELSE /\ pc' = [pc EXCEPT ![t] = "get_workers"]
            /\ UNCHANGED ret
    /\ UNCHANGED <<envVars, subVars, workers, seen, cands, best, waitLeft, waited, emitted,
                   docker, prev, ssh>>

\* what running the docker command on the worker meets: the container id comes back,
\* docker exits non-zero, ssh.connect raises AuthenticationException or SSHException,
\* exec_command raises SSHException on the open connection, or something else raises
\* once connected (locally: subprocess.run raises)
DispatchOutcomes == {"ok", "nonzero", "auth_failed", "ssh_error", "ssh_error_exec", "exception"}

LocalOutcomes == {"ok", "nonzero", "exception"}

\* the exception the outcome raises inside the try block
Raises(outcome) ==
    CASE outcome = "auth_failed" -> "AuthenticationException"
      [] outcome \in {"ssh_error", "ssh_error_exec"} -> "SSHException"
      [] outcome = "exception" -> "Exception"
      [] OTHER -> "none"

\* ssh.connect has returned: the connection is open
Connected(outcome) == outcome \in {"ok", "nonzero", "ssh_error_exec", "exception"}

\* the except clauses of _execute_ssh_docker in order, with the message each returns
Handlers ==
    << [class |-> "AuthenticationException", message |-> "auth_failed"],
       [class |-> "SSHException", message |-> "ssh_error"],
       [class |-> "Exception", message |-> "exception"] >>

\* paramiko: AuthenticationException is an SSHException; everything is an Exception
IsInstance(exc, class) ==
    \/ exc = class
    \/ class = "Exception"
    \/ exc = "AuthenticationException" /\ class = "SSHException"

\* the first except clause that matches, 0 when none does
Handler(exc) ==
    IF \E i \in DOMAIN Handlers : IsInstance(exc, Handlers[i].class)
    THEN CHOOSE i \in DOMAIN Handlers :
             /\ IsInstance(exc, Handlers[i].class)
             /\ \A j \in 1..(i - 1) : ~IsInstance(exc, Handlers[j].class)
    ELSE 0

ssh_close_OnSuccessOnly(conn, outcome) ==
    IF conn = "open" /\ Raises(outcome) = "none" THEN "closed" ELSE conn

\* finally: if ssh: ssh.close()
ssh_close(conn, outcome) == IF conn = "open" THEN "closed" ELSE conn

\* _execute_local_docker: (success, output); every exception is caught
execute_local_docker(outcome) ==
    [success |-> outcome = "ok",
     output |-> CASE outcome = "ok" -> "cid"
                  [] outcome = "nonzero" -> "stderr"
                  [] OTHER -> "exception",
     raised |-> FALSE,
     ssh |-> "none"]

\* _execute_ssh_docker: (success, output), whether an exception leaves the function,
\* and the state of the connection when it is left
execute_ssh_docker(outcome) ==
    LET exc == Raises(outcome)
        conn == IF Connected(outcome) THEN "open" ELSE "none"
    IN [success |-> outcome = "ok",
        output |-> CASE outcome = "ok" -> "cid"
                     [] outcome = "nonzero" -> "stderr"
                     [] Handler(exc) # 0 -> Handlers[Handler(exc)].message
                     [] OTHER -> "none",
        raised |-> exc # "none" /\ Handler(exc) = 0,
        ssh |-> ssh_close(conn, outcome)]

\* _execute_docker_command: local workers run the command directly, others over SSH
execute_docker_command(w, outcome) ==
    IF is_local(w) THEN execute_local_docker(outcome) ELSE execute_ssh_docker(outcome)

\* execute_scan_flow / execute_delete_task after the dispatch: the tuple returned
DispatchResult(o, w, r) ==
    IF r.raised THEN <<"raised">>
    ELSE IF o = "scan"
    THEN IF r.success THEN <<TRUE, "submitted", r.output, w>>
         ELSE <<FALSE, r.output, "none", Nil>>
    ELSE IF r.success THEN <<TRUE, "submitted", r.output>>
         ELSE <<FALSE, r.output, "none">>

\* _execute_docker_command on the selected worker and the operation's return value
ExecDocker(t, outcome) ==
    LET r == execute_docker_command(best[t], outcome)
    IN /\ pc[t] = "exec"
       /\ is_local(best[t]) => outcome \in LocalOutcomes
       /\ docker' = [docker EXCEPT ![t] = "executed"]
       /\ ret' = [ret EXCEPT ![t] = DispatchResult(op[t], best[t], r)]
       /\ ssh' = [ssh EXCEPT ![t] = r.ssh]
       /\ pc' = [pc EXCEPT ![t] = "done"]
       /\ UNCHANGED <<envVars, subVars, op, workers, seen, cands, best, waitLeft, waited,
                      emitted, prev>>

\* execute_cleanup_on_all_workers up to the loop
StartCleanup(t) ==
    /\ pc[t] = "idle"
    /\ op' = [op EXCEPT ![t] = "cleanup"]
    /\ workers' = [workers EXCEPT ![t] = get_online_workers]
    /\ pc' = [pc EXCEPT ![t] = IF get_online_workers = <<>> THEN "done" ELSE "cleanup_loop"]
    /\ UNCHANGED <<envVars, subVars, seen, cands, best, waitLeft, waited, emitted, docker,
                   ret, prev, ssh>>

\* what an iteration of the cleanup loop meets: the container was started, the
\* docker command failed (success = False comes back), or an exception was raised
CleanupOutcomes == {"started", "failed", "raised"}

\* the entry appended to results, by the try block or by its except clause
CleanupResult(w, outcome) ==
    [worker_id |-> w, success |-> outcome = "started", error |-> outcome = "raised"]

CleanupLoopEndsOnException(rest, outcome) ==
    IF rest = <<>> \/ outcome = "raised" THEN "done" ELSE "cleanup_loop"

\* the for loop goes on with the next worker whatever the iteration met
CleanupLoop(rest, outcome) == IF rest = <<>> THEN "done" ELSE "cleanup_loop"

\* one iteration of the cleanup loop: build and run run_cleanup on the next worker
CleanupStep(t, outcome) ==
    /\ pc[t] = "cleanup_loop"
    /\ docker' = [docker EXCEPT ![t] = "executed"]
    /\ ret' = [ret EXCEPT ![t] = Append(ret[t], CleanupResult(Head(workers[t]), outcome))]
    /\ workers' = [workers EXCEPT ![t] = Tail(workers[t])]
    /\ pc' = [pc EXCEPT ![t] = CleanupLoop(Tail(workers[t]), outcome)]
    /\ ssh' = [ssh EXCEPT ![t] =
                 IF outcome = "raised" THEN "none"
                 ELSE execute_docker_command(Head(workers[t]),
                          IF outcome = "started" THEN "ok" ELSE "nonzero").ssh]
    /\ UNCHANGED <<envVars, subVars, op, seen, cands, best, waitLeft, waited, emitted, prev>>

\* ------------------------------------------------------- WorkerNodeViewSet
FirstHeartbeatOnlyPending(s) == IF s = "pending" THEN "online" ELSE s

FirstHeartbeatNotOnline(s) == IF s # "online" THEN "online" ELSE s

\* step 2 of heartbeat: a status other than online/offline becomes online
FirstHeartbeatStatus(s) == IF s \notin {"online", "offline"} THEN "online" ELSE s

VersionCheckedWhenPresent(ver) == ver # ""

\* step 3 of heartbeat: the version is compared only when present and not 'unknown'
VersionChecked(ver) == ver # "" /\ ver # "unknown"

NeedUpdate(ver) == VersionChecked(ver) /\ ver # SERVER_VERSION

TriggersUpdateAnyWorker(w, ver) == NeedUpdate(ver)

\* _trigger_remote_agent_update is entered: remote worker, version mismatch
TriggersUpdate(w, ver) == NeedUpdate(ver) /\ ~is_local(w)

\* redis SET agent_update_lock:<id> NX EX 60 succeeds
LockAcquired(w) == lock[w] = 0

\* WorkerNode.status when the handler returns
StatusAfterHeartbeat(w, s, ver, acquired) ==
    LET s1 == FirstHeartbeatStatus(s)
    IN IF NeedUpdate(ver)
       THEN IF ~is_local(w)
            THEN IF acquired THEN "updating" ELSE s1
            ELSE "outdated"
       ELSE IF VersionChecked(ver) /\ s1 \in {"updating", "outdated"}
            THEN "online"
            ELSE s1

\* POST /workers/{id}/heartbeat
Heartbeat(w, cpu, mem, ver) ==
    LET starts == TriggersUpdate(w, ver) /\ LockAcquired(w)
    IN /\ row[w]
       /\ starts => updating[w] < MaxUpdates
       /\ update_load(w, cpu, mem)
       /\ status' = [status EXCEPT ![w] = StatusAfterHeartbeat(w, status[w], ver, LockAcquired(w))]
       /\ lock' = IF starts THEN [lock EXCEPT ![w] = LOCK_TTL] ELSE lock
       /\ updating' = IF starts THEN [updating EXCEPT ![w] = updating[w] + 1] ELSE updating
       /\ lastHb' = [w |-> w, pre |-> status[w], ver |-> ver, free |-> LockAcquired(w),
                     n |-> 1 - lastHb.n]
       /\ lastUpd' = NoUpd
       /\ UNCHANGED <<row, destroy, thrVars, subVars, cmdVars, appVars>>

StatusAfterUpdateOnlineOnSuccess(s, success) == IF success THEN "online" ELSE "outdated"

\* _async_update: a failed or raising remote command marks the worker outdated
StatusAfterUpdate(s, success) == IF success THEN s ELSE "outdated"

\* the background thread _async_update ends: on failure (or exception) the worker
\* is marked outdated; the lock key is deleted in either case
AsyncUpdateEnds(w, success) ==
    /\ updating[w] > 0
    /\ updating' = [updating EXCEPT ![w] = updating[w] - 1]
    /\ status' = [status EXCEPT ![w] = StatusAfterUpdate(status[w], success)]
    /\ lock' = [lock EXCEPT ![w] = 0]
    /\ lastUpd' = IF success THEN NoUpd ELSE w
    /\ lastHb' = [NoHb EXCEPT !.n = lastHb.n]
    /\ UNCHANGED <<load, row, destroy, thrVars, subVars, cmdVars, appVars>>

\* the docstring's order: uninstall first, then the deletions
DestroyOrderUninstallFirst == <<"start_uninstall", "delete_load", "delete_worker", "respond">>

\* the statements of destroy after get_object, in program order
DestroyOrder == <<"delete_load", "delete_worker", "start_uninstall", "respond">>

\* DELETE /workers/{id}: the next statement of the handler
DestroyStep(w) ==
    LET d == destroy[w]
        stmt == DestroyOrder[d.step + 1]
    IN /\ d.step < Len(DestroyOrder)
       /\ d.step = 0 => row[w]
       /\ load' = IF stmt = "delete_load" THEN [load EXCEPT ![w] = NoLoad] ELSE load
       /\ row' = IF stmt = "delete_worker" THEN [row EXCEPT ![w] = FALSE] ELSE row
       /\ destroy' = [destroy EXCEPT ![w] =
                        [d EXCEPT !.step = d.step + 1,
                                  !.purged = d.purged \/ stmt = "delete_load",
                                  !.thread = IF stmt = "start_uninstall" THEN "running"
                                             ELSE d.thread,
                                  !.response = IF stmt = "respond" THEN 200 ELSE d.response]]
       /\ lastUpd' = NoUpd
       /\ lastHb' = [NoHb EXCEPT !.n = lastHb.n]
       /\ UNCHANGED <<status, lock, updating, thrVars, subVars, cmdVars, appVars>>

UninstallOutcomes == {"ok", "failed", "raised"}

\* the background thread _async_remote_uninstall ends; a failure or an exception
\* is logged and sent as worker_delete_failed
UninstallEnds(w, outcome) ==
    /\ destroy[w].thread = "running"
    /\ destroy' = [destroy EXCEPT ![w].thread = outcome,
                                  ![w].failed = IF outcome = "ok" THEN @ ELSE @ + 1]
    /\ lastUpd' = NoUpd
    /\ lastHb' = [NoHb EXCEPT !.n = lastHb.n]
    /\ UNCHANGED <<status, load, lock, updating, row, thrVars, subVars, cmdVars, appVars>>

\* --------------------------------------------------------- CommandExecutor
SetCmd(c, r) == cmd' = [cmd EXCEPT ![c] = r]

BelowOrAtThresholds(cpu, mem) == cpu <= SCAN_CPU_HIGH /\ mem <= SCAN_MEM_HIGH

\* _wait_for_system_load: cpu < SCAN_CPU_HIGH and mem < SCAN_MEM_HIGH
BelowThresholds(cpu, mem) == cpu < SCAN_CPU_HIGH /\ mem < SCAN_MEM_HIGH

\* _ACTIVE_COMMANDS -= 1 under the lock, never below 0
Release(n) == IF n > 0 THEN n - 1 ELSE n

\* _write_command_start_header: the header is the log's content so far
Header(r, hasLog) ==
    [r EXCEPT !.tail = IF hasLog /\ ENABLE_COMMAND_LOGGING THEN "header" ELSE r.tail]

\* _write_command_end_footer: appended to the log file
Footer(r) ==
    IF r.log /\ ENABLE_COMMAND_LOGGING
    THEN [r EXCEPT !.tail = "footer", !.footers = r.footers + 1]
    ELSE r

\* _kill_process_tree: nothing when the leader has exited (poll() is not None),
\* otherwise SIGKILL to the whole process group
KillTree(r) ==
    IF r.leader = "running"
    THEN [r EXCEPT !.leader = "exited", !.code = -9, !.kids = "none", !.killed = TRUE]
    ELSE r

\* execute_and_wait up to the startup delay of _wait_for_system_load
StartWait(c, hasLog) ==
    /\ cmd[c].pc = "idle"
    /\ active <= NumCalls
    /\ SetCmd(c, [NoCmd EXCEPT !.pc = "delay", !.mode = "wait", !.log = hasLog,
                               !.timeout = ExecTimeout,
                               !.wait = SCAN_COMMAND_STARTUP_DELAY])
    /\ UNCHANGED <<regVars, thrVars, subVars, appVars, host, active, psutil>>

\* execute_stream (first next() of the generator) up to the startup delay: the log
\* file is opened before admission; an open() that raises ends the call
StartStream(c, hasLog, timeout, openOk) ==
    /\ cmd[c].pc = "idle"
    /\ active <= NumCalls
    /\ ~openOk => hasLog
    /\ SetCmd(c, IF openOk
                 THEN [Header(NoCmd, hasLog) EXCEPT
                                    !.pc = "delay", !.mode = "stream", !.log = hasLog,
                                    !.timeout = timeout,
                                    !.handle = IF hasLog THEN "open" ELSE "none",
                                    !.wait = SCAN_COMMAND_STARTUP_DELAY]
                 ELSE [Header(NoCmd, hasLog) EXCEPT
                                    !.pc = "raised", !.mode = "stream", !.log = hasLog,
                                    !.timeout = timeout, !.result = "error"])
    /\ UNCHANGED <<regVars, thrVars, subVars, appVars, host, active, psutil>>

\* one round of the polling loop: sample the host, return (the caller registers
\* the command at once) or sleep SCAN_LOAD_CHECK_INTERVAL
TakeSample(c) ==
    LET r == [cmd[c] EXCEPT !.sample = [cpu |-> host[1], mem |-> host[2], taken |-> TRUE]]
    IN IF BelowThresholds(host[1], host[2])
       THEN /\ SetCmd(c, [r EXCEPT !.pc = "launch", !.slot = TRUE])
            /\ active' = active + 1
       ELSE /\ SetCmd(c, [r EXCEPT !.pc = "poll_sleep", !.polled = TRUE,
                                   !.wait = SCAN_LOAD_CHECK_INTERVAL])
            /\ UNCHANGED active

\* the startup delay is over: ImportError without psutil, else the first sample
DelayOver(c) ==
    /\ cmd[c].pc = "delay"
    /\ cmd[c].wait <= 0
    /\ IF psutil
       THEN TakeSample(c)
       ELSE /\ SetCmd(c, [cmd[c] EXCEPT !.pc = "raised", !.result = "import_error"])
            /\ UNCHANGED active
    /\ UNCHANGED <<regVars, thrVars, subVars, appVars, host, psutil>>

PollWakeGivesUp(c) ==
    /\ cmd[c].pc = "poll_sleep"
    /\ cmd[c].wait <= 0
    /\ SetCmd(c, [cmd[c] EXCEPT !.pc = "raised", !.result = "admission_timeout"])
    /\ UNCHANGED <<regVars, thrVars, subVars, appVars, host, active, psutil>>

\* time.sleep(SCAN_LOAD_CHECK_INTERVAL) is over: sample again
PollWake(c) ==
    /\ cmd[c].pc = "poll_sleep"
    /\ cmd[c].wait <= 0
    /\ TakeSample(c)
    /\ UNCHANGED <<regVars, thrVars, subVars, appVars, host, psutil>>

LaunchOutcomes == {"ok", "open_fails", "popen_fails"}
KidStates == {"none", "attached", "detached"}

\* execute_and_wait from the log file to Popen; an exception runs the finally block
LaunchWait(c, outcome, kids) ==
    LET r == cmd[c]
    IN /\ r.pc = "launch" /\ r.mode = "wait"
       /\ outcome = "open_fails" => r.log
       /\ outcome # "ok" => kids = "none"
       /\ IF outcome = "ok"
          THEN /\ SetCmd(c, [Header(r, r.log) EXCEPT !.pc = "communicate",
                                      !.handle = IF r.log THEN "open" ELSE "none",
                                      !.leader = "running", !.kids = kids,
                                      !.tleft = r.timeout])
               /\ UNCHANGED active
          ELSE /\ SetCmd(c, [Header(r, r.log) EXCEPT
                                      !.pc = "raised", !.result = "error", !.slot = FALSE,
                                      !.handle = IF r.log /\ outcome = "popen_fails"
                                                 THEN "closed" ELSE "none"])
               /\ active' = Release(active)
       /\ UNCHANGED <<regVars, thrVars, subVars, appVars, host, psutil>>

FinallyWaitNoKill(r) ==
    [r EXCEPT !.handle = IF r.handle = "open" THEN "closed" ELSE r.handle, !.slot = FALSE]

\* the finally block of execute_and_wait
FinallyWait(r) ==
    [KillTree(r) EXCEPT !.handle = IF r.handle = "open" THEN "closed" ELSE r.handle,
                        !.slot = FALSE]

\* communicate() returns: the result carries success and the exit code
WaitReturns(c) ==
    LET r == cmd[c]
    IN /\ r.pc = "communicate" /\ r.leader = "exited"
       /\ SetCmd(c, [FinallyWait(Footer(r)) EXCEPT
                                           !.pc = "returned",
                                           !.result = IF r.code = 0 THEN "ok" ELSE "nonzero"])
       /\ active' = Release(active)
       /\ UNCHANGED <<regVars, thrVars, subVars, appVars, host, psutil>>

\* a process that holds the log file as its stdout writes to it
Output(r) == [r EXCEPT !.tail = "output"]

\* communicate(timeout) raises TimeoutExpired: the except clause writes the footer
\* while the subprocess still runs (it may write to the log until it is killed), the
\* finally block kills it; RuntimeError after the finally block
WaitTimeout(c) ==
    LET r == cmd[c]
    IN /\ r.pc = "communicate" /\ r.leader = "running" /\ r.tleft <= 0
       /\ \E wrote \in BOOLEAN :
             /\ wrote => r.log /\ ENABLE_COMMAND_LOGGING
             /\ SetCmd(c, [FinallyWait(IF wrote THEN Output(Footer(r)) ELSE Footer(r))
                              EXCEPT !.pc = "raised", !.result = "timeout_error"])
       /\ active' = Release(active)
       /\ UNCHANGED <<regVars, thrVars, subVars, appVars, host, psutil>>

\* another exception reaches communicate() (cancellation): re-raised after finally
WaitInterrupted(c) ==
    LET r == cmd[c]
    IN /\ r.pc = "communicate" /\ r.leader = "running"
       /\ SetCmd(c, [FinallyWait(r) EXCEPT !.pc = "raised", !.result = "interrupted"])
       /\ active' = Release(active)
       /\ UNCHANGED <<regVars, thrVars, subVars, appVars, host, psutil>>

\* execute_stream: Popen and the watchdog timer; Popen is outside the try block,
\* an exception leaves the generator with nothing undone
LaunchStream(c, ok, kids) ==
    LET r == cmd[c]
    IN /\ r.pc = "launch" /\ r.mode = "stream"
       /\ ~ok => kids = "none"
       /\ SetCmd(c, IF ok
                    THEN [r EXCEPT !.pc = "reading", !.leader = "running", !.kids = kids,
                                   !.timer = IF r.timeout > 0 THEN "armed" ELSE "none",
                                   !.tleft = r.timeout]
                    ELSE [r EXCEPT !.pc = "raised", !.result = "launch_error"])
       /\ UNCHANGED <<regVars, thrVars, subVars, appVars, host, active, psutil>>

\* _kill_when_timeout: set the timed-out event, kill the tree if poll() is None
TimerFires(c) ==
    LET r == cmd[c]
    IN /\ r.pc \in {"reading", "yielded"}
       /\ r.timer = "armed" /\ r.tleft <= 0
       /\ SetCmd(c, [KillTree(r) EXCEPT !.timer = "fired"])
       /\ UNCHANGED <<regVars, thrVars, subVars, appVars, host, active, psutil>>

FinalizerOrderReleaseFirst ==
    <<"release_slot", "cancel_timer", "ensure_exit", "close_io", "close_log", "footer">>

\* the statements of the finally block of execute_stream, in program order
FinalizerOrder ==
    <<"cancel_timer", "ensure_exit", "close_io", "close_log", "footer", "release_slot">>

\* the conditions under which the finally block executes a statement
FinalizerApplies(r, step) ==
    CASE step = "cancel_timer" -> r.timer # "none"
      [] step = "close_log" -> r.handle = "open"
      [] step = "footer" -> r.log /\ ENABLE_COMMAND_LOGGING
      [] step = "release_slot" -> r.slot
      [] OTHER -> TRUE

\* the finally block of execute_stream.  Whether the timer has fired or not, a
\* leader that still runs is killed with its group (at once, or when wait(1.0)
\* times out), and wait() then returns.
FinallyStream(r) ==
    [KillTree(Footer(r)) EXCEPT !.timer = IF r.timer = "armed" THEN "cancelled" ELSE r.timer,
                        !.handle = IF r.handle = "open" THEN "closed" ELSE r.handle,
                        !.slot = FALSE,
                        !.steps = SelectSeq(FinalizerOrder,
                                            LAMBDA step : FinalizerApplies(r, step))]

\* readline() returns a line: the generator yields it
StreamYield(c) ==
    LET r == cmd[c]
    IN /\ r.pc = "reading"
       /\ r.leader = "running" \/ r.kids = "attached"
       /\ SetCmd(c, [(IF r.handle = "open" /\ ENABLE_COMMAND_LOGGING THEN Output(r) ELSE r)
                        EXCEPT !.pc = "yielded"])
       /\ UNCHANGED <<regVars, thrVars, subVars, appVars, host, active, psutil>>

\* the consumer asks for the next line
ConsumerNext(c) ==
    /\ cmd[c].pc = "yielded"
    /\ SetCmd(c, [cmd[c] EXCEPT !.pc = "reading"])
    /\ UNCHANGED <<regVars, thrVars, subVars, appVars, host, active, psutil>>

\* readline() returns '': no process holds the pipe any more; the loop ends and
\* the finally block runs
StreamEOF(c) ==
    LET r == cmd[c]
    IN /\ r.pc = "reading"
       /\ r.leader = "exited" /\ r.kids # "attached"
       /\ SetCmd(c, [FinallyStream(r) EXCEPT !.pc = "returned", !.result = "exhausted"])
       /\ active' = IF r.slot THEN Release(active) ELSE active
       /\ UNCHANGED <<regVars, thrVars, subVars, appVars, host, psutil>>

\* the consumer stops (close(), an error, a cancellation): GeneratorExit or the
\* exception is raised at the yield and the finally block runs
ConsumerAbort(c) ==
    LET r == cmd[c]
    IN /\ r.pc = "yielded"
       /\ SetCmd(c, [FinallyStream(r) EXCEPT !.pc = "closed", !.result = "closed"])
       /\ active' = IF r.slot THEN Release(active) ELSE active
       /\ UNCHANGED <<regVars, thrVars, subVars, appVars, host, psutil>>

Running(c) == cmd[c].pc \in {"communicate", "reading", "yielded"}

ExitCodes == {0, 1}

\* the shell leader exits by itself
ProcExits(c, rc) ==
    /\ Running(c)
    /\ cmd[c].leader = "running"
    /\ SetCmd(c, [cmd[c] EXCEPT !.leader = "exited", !.code = rc])
    /\ UNCHANGED <<regVars, thrVars, subVars, appVars, host, active, psutil>>

\* the descendants of the leader exit by themselves
KidsExit(c) ==
    /\ Running(c)
    /\ cmd[c].kids # "none"
    /\ SetCmd(c, [cmd[c] EXCEPT !.kids = "none"])
    /\ UNCHANGED <<regVars, thrVars, subVars, appVars, host, active, psutil>>

\* execute_and_wait hands the log file to the subprocess as stdout (stderr joined):
\* the leader, or a descendant that inherited the descriptor, writes a line to it
ProcWrites(c) ==
    LET r == cmd[c]
    IN /\ r.mode = "wait" /\ r.log /\ ENABLE_COMMAND_LOGGING
       /\ r.leader = "running" \/ r.kids = "attached"
       /\ r.tail # "output"
       /\ SetCmd(c, Output(r))
       /\ UNCHANGED <<regVars, thrVars, subVars, appVars, host, active, psutil>>

\* the caller has its result or its exception; the invocation is over
ExecReturn(c) ==
    /\ cmd[c].pc \in {"returned", "raised", "closed"}
    /\ SetCmd(c, NoCmd)
    /\ UNCHANGED <<regVars, thrVars, subVars, appVars, host, active, psutil>>

\* the load of the host changes
HostChanges(l) ==
    /\ l # host
    /\ host' = l
    /\ UNCHANGED <<regVars, thrVars, subVars, appVars, cmd, active, psutil>>

\* ------------------------------------------------------------------- time
\* no thread is between two statements that run without suspension
Quiescent == \A t \in Threads : pc[t] \notin {"done", "high_load_return"}

Tick ==
    /\ Quiescent
    /\ load' = [w \in Workers |-> Expire(load[w])]
    /\ lock' = [w \in Workers |-> Max(lock[w] - TickStep, 0)]
    /\ waitLeft' = [t \in Threads |-> Max(waitLeft[t] - TickStep, 0)]
    /\ waited' = [t \in Threads |->
                    IF pc[t] = "high_load_sleep"
                    THEN Min(waited[t] + TickStep, HIGH_LOAD_WAIT_SECONDS)
                    ELSE waited[t]]
    /\ sinceSubmit' = IF sinceSubmit < 0 THEN sinceSubmit
                      ELSE Min(sinceSubmit + TickStep, TASK_SUBMIT_INTERVAL)
    /\ lastUpd' = NoUpd
    /\ cmd' = [c \in Calls |->
                  [cmd[c] EXCEPT !.wait = Max(@ - TickStep, 0),
                                 !.tleft = Max(@ - TickStep, 0),
                                 !.age = IF cmd[c].pc = "delay"
                                         THEN Min(@ + TickStep, SCAN_COMMAND_STARTUP_DELAY)
                                         ELSE @]]
    /\ lastHb' = [NoHb EXCEPT !.n = lastHb.n]
    /\ UNCHANGED <<status, updating, row, destroy, pc, op, workers, seen, cands, best, emitted,
                   docker, ret, prev, ssh, minGap, host, active, psutil, appVars>>

\* Load Registry update(id, cpu, mem): upsert, refresh TTL
UpdateLoad(w, cpu, mem) ==
    /\ Quiescent
    /\ update_load(w, cpu, mem)
    /\ UNCHANGED <<status, lock, updating, lastHb, lastUpd, row, destroy, thrVars, subVars,
                   cmdVars, appVars>>

\* ------------------------------------------------------------ scan pipeline
\* command_templates.py: the stage table and the execution graph. The runner that walks
\* EXECUTION_STAGES is described in the specification (Pipeline Runner): groups one after
\* the other, the flows of a sequential group one after the other, the flows of a parallel
\* group started together and awaited together.

NumScans == 2
Scans == 1..NumScans

\* keys of COMMAND_TEMPLATES, in the order of the dict
COMMAND_TEMPLATES == <<"subdomain_discovery", "port_scan", "site_scan", "directory_scan",
                       "url_fetch", "vuln_scan">>

get_supported_scan_types == COMMAND_TEMPLATES

Stages == Range(get_supported_scan_types)

EXECUTION_STAGES_VulnInParallelGroup ==
    << [mode |-> "sequential", flows |-> <<"subdomain_discovery", "port_scan", "site_scan">>],
       [mode |-> "parallel", flows |-> <<"url_fetch", "directory_scan", "vuln_scan">>] >>

EXECUTION_STAGES ==
    << [mode |-> "sequential", flows |-> <<"subdomain_discovery", "port_scan", "site_scan">>],
       [mode |-> "parallel", flows |-> <<"url_fetch", "directory_scan">>],
       [mode |-> "sequential", flows |-> <<"vuln_scan">>] >>

NoStages == [s \in Stages |-> "pending"]

\* every flow of group g of scan n has ended
GroupDone(n, g) == \A s \in Range(EXECUTION_STAGES[g].flows) : stage[n][s] = "done"

\* the runner is about to start flow s of scan n
MayStart(n, s) ==
    /\ stage[n][s] = "pending"
    /\ \E g \in DOMAIN EXECUTION_STAGES : \E i \in DOMAIN EXECUTION_STAGES[g].flows :
          /\ EXECUTION_STAGES[g].flows[i] = s
          /\ \A h \in 1..(g - 1) : GroupDone(n, h)
          /\ EXECUTION_STAGES[g].mode = "sequential" =>
                \A j \in 1..(i - 1) : stage[n][EXECUTION_STAGES[g].flows[j]] = "done"

StageStarts(n, s) ==
    /\ MayStart(n, s)
    /\ stage' = [stage EXCEPT ![n][s] = "running"]
    /\ UNCHANGED <<regVars, cmdVars, thrVars, subVars, vuln, dbVars>>

StageEnds(n, s) ==
    /\ stage[n][s] = "running"
    /\ stage' = [stage EXCEPT ![n][s] = "done"]
    /\ UNCHANGED <<regVars, cmdVars, thrVars, subVars, vuln, dbVars>>

\* ------------------------------------------------------------ endpoints_vuln_scan_flow
\* endpoints_vuln_scan_flow.py. The tasks (export_endpoints_task, the tool tasks),
\* build_scan_command, ensure_nuclei_templates_local and calculate_timeout_by_line_count
\* are called, not defined, by the flow: a task or a helper ends in any of its outcomes.

MaxLines == 3

\* keys of VULN_SCAN_COMMANDS
VulnTools == {"dalfox_xss", "nuclei"}

\* Python values a tool configuration can hold under "timeout"
StrV(s) == [k |-> "str", s |-> s, v |-> 0]
IntV(n) == [k |-> "int", s |-> <<>>, v |-> n]
FloatV(tenths) == [k |-> "float", s |-> <<>>, v |-> tenths]
NoneV == [k |-> "none", s |-> <<>>, v |-> 0]
FloatInf == [k |-> "inf", s |-> <<>>, v |-> 0]
Missing == [k |-> "missing", s |-> <<>>, v |-> 0]

AutoV == StrV(<<"a", "u", "t", "o">>)

RawTimeouts ==
    {Missing, AutoV, IntV(30), StrV(<<" ", "6", "0">>), StrV(<<"a", "b", "c">>), NoneV,
     FloatV(127), FloatInf}

Digits == <<"0", "1", "2", "3", "4", "5", "6", "7", "8", "9">>
IsDigit(ch) == \E d \in DOMAIN Digits : Digits[d] = ch
DigitVal(ch) == (CHOOSE d \in DOMAIN Digits : Digits[d] = ch) - 1

RECURSIVE lstrip(_)
lstrip(s) == IF s # <<>> /\ Head(s) = " " THEN lstrip(Tail(s)) ELSE s

RECURSIVE rstrip(_)
rstrip(s) == IF s # <<>> /\ s[Len(s)] = " " THEN rstrip(SubSeq(s, 1, Len(s) - 1)) ELSE s

RECURSIVE digits_value(_)
digits_value(s) ==
    IF s = <<>> THEN 0
    ELSE 10 * digits_value(SubSeq(s, 1, Len(s) - 1)) + DigitVal(s[Len(s)])

Returned(v) == [ok |-> TRUE, v |-> v, err |-> "none"]
Raised(e) == [ok |-> FALSE, v |-> 0, err |-> e]

\* int(x) of Python: a decimal literal with surrounding blanks and a sign for a string,
\* truncation toward zero for a float, TypeError for None, OverflowError for infinity
int(x) ==
    CASE x.k = "int" -> Returned(x.v)
      [] x.k = "float" -> Returned(IF x.v >= 0 THEN x.v \div 10 ELSE -((-x.v) \div 10))
      [] x.k = "inf" -> Raised("OverflowError")
      [] x.k = "none" -> Raised("TypeError")
      [] x.k = "str" ->
            LET t == rstrip(lstrip(x.s))
                signed == t # <<>> /\ Head(t) \in {"-", "+"}
                u == IF signed THEN Tail(t) ELSE t
            IN  IF u # <<>> /\ \A i \in DOMAIN u : IsDigit(u[i])
                THEN Returned(IF signed /\ Head(t) = "-" THEN -digits_value(u)
                              ELSE digits_value(u))
                ELSE Raised("ValueError")

\* tool_config.get("timeout", 600)
raw_timeout(tool_config) == IF tool_config.timeout = Missing THEN IntV(600) ELSE tool_config.timeout

base_per_time_Always100(tool_name) == 100

base_per_time(tool_name) == IF tool_name = "nuclei" THEN 30 ELSE 100

\* the floor of the line-count based timeout
min_timeout == 60

calculate_timeout_by_line_count(lines, per_line) == Max(min_timeout, lines * per_line)

\* lines 122-139: the timeout of one tool, or the error the flow raises
resolve_timeout(tool_name, tool_config, lines) ==
    LET raw == raw_timeout(tool_config) IN
    IF raw.k = "str" /\ raw = AutoV
    THEN Returned(calculate_timeout_by_line_count(lines, base_per_time(tool_name)))
    ELSE LET r == int(raw) IN
         IF r.ok THEN r
         ELSE IF r.err \in {"TypeError", "ValueError"} THEN Raised("ValueError") ELSE r

\* template_repo_names of a nuclei configuration: absent or not a list, a list whose
\* repositories can all be materialized, a list with one that cannot
RepoConfigs == {"missing", "ok", "fails"}

ToolConfigs == [timeout : RawTimeouts, repos : RepoConfigs]

\* enabled_tools: an ordered dict, tool name -> tool configuration
EnabledTools ==
    {<<>>} \cup
    {<<[name |-> n, config |-> cf]>> : n \in VulnTools, cf \in ToolConfigs}
    \cup
    {<<[name |-> n1, config |-> c1], [name |-> n2, config |-> c2]>> :
        n1 \in VulnTools, n2 \in VulnTools, c1 \in ToolConfigs, c2 \in ToolConfigs}

DistinctNames(tools) ==
    /\ \A i, j \in DOMAIN tools : tools[i].name = tools[j].name => i = j
    /\ \A i \in DOMAIN tools : tools[i].name # "nuclei" => tools[i].config.repos = "missing"

\* the argument the caller left empty, if any
Arguments == {"complete", "scan_id", "target_name", "target_id", "scan_workspace_dir"}

\* export_endpoints_task: total_count and the lines of input_endpoints.txt (-1: no file)
ExportOutcomes == [total : 0..MaxLines, file : -1..MaxLines]

NoRet == [success |-> FALSE, endpoint_count |-> -1, executed_tools |-> <<>>,
          tool_results |-> {}]

NoVuln == [pc |-> "idle", tools |-> <<>>, exported |-> FALSE, total |-> 0, file |-> -1,
           i |-> 1, j |-> 1, futures |-> <<>>, resolved |-> {}, repos |-> FALSE,
           tool_results |-> {}, err |-> "none", ret |-> NoRet]

\* line 70: the stage is short-circuited
NoEndpointsTotalOnly(total, file) == total = 0

NoEndpoints(total, file) == total = 0 \/ file = -1 \/ file = 0

SetVuln(v) ==
    /\ vuln' = v
    /\ UNCHANGED <<regVars, cmdVars, thrVars, subVars, stage, dbVars>>

\* lines 46-82: validation, workspace, export, short-circuit on an empty input
FlowStart(args, tools, export) ==
    /\ vuln.pc = "idle"
    /\ DistinctNames(tools)
    /\ IF args # "complete" \/ tools = <<>>
       THEN SetVuln([vuln EXCEPT !.pc = "raised", !.tools = tools, !.err = "ValueError"])
       ELSE IF NoEndpoints(export.total, export.file)
       THEN SetVuln([vuln EXCEPT !.pc = "returned", !.tools = tools, !.exported = TRUE,
                                 !.total = export.total,
                                 !.file = export.file,
                                 !.ret = [success |-> TRUE, endpoint_count |-> 0,
                                          executed_tools |-> <<>>, tool_results |-> {}]])
       ELSE SetVuln([vuln EXCEPT !.pc = "submit", !.tools = tools, !.exported = TRUE,
                                 !.total = export.total,
                                 !.file = export.file])

\* lines 58-66: export_endpoints_task raises
ExportFails(args, tools) ==
    /\ vuln.pc = "idle"
    /\ DistinctNames(tools)
    /\ args = "complete" /\ tools # <<>>
    /\ SetVuln([vuln EXCEPT !.pc = "raised", !.tools = tools, !.err = "export"])

\* lines 92-204: one pass of the submission loop
FlowSubmit ==
    /\ vuln.pc = "submit"
    /\ vuln.i <= Len(vuln.tools)
    /\ LET tool == vuln.tools[vuln.i]
           skip == tool.name = "nuclei" /\ tool.config.repos # "ok"
           t == resolve_timeout(tool.name, tool.config, vuln.file)
       IN  IF skip
           THEN SetVuln([vuln EXCEPT !.i = @ + 1])
           ELSE IF ~t.ok
           THEN SetVuln([vuln EXCEPT !.pc = "raised", !.err = t.err,
                                     !.repos = @ \/ tool.name = "nuclei",
                                     !.resolved = @ \cup {tool.name}])
           ELSE SetVuln([vuln EXCEPT
                    !.i = @ + 1,
                    !.repos = @ \/ tool.name = "nuclei",
                    !.resolved = @ \cup {tool.name},
                    !.futures = Append(@, [name |-> tool.name, timeout |-> t.v,
                                           mode |-> "streaming", state |-> "running"])])

\* line 206: the submission loop is over
FlowSubmitted ==
    /\ vuln.pc = "submit"
    /\ vuln.i > Len(vuln.tools)
    /\ SetVuln([vuln EXCEPT !.pc = "collect"])

\* a submitted tool task ends: normally, or by raising
TaskOutcomes == {"completed", "failed"}

TaskEnds(k, outcome) ==
    /\ k \in DOMAIN vuln.futures
    /\ vuln.futures[k].state = "running"
    /\ SetVuln([vuln EXCEPT !.futures[k].state = outcome])

\* lines 207-226: future.result() of one tool; the exception of a failed task is re-raised
FlowCollect ==
    /\ vuln.pc = "collect"
    /\ vuln.j <= Len(vuln.futures)
    /\ LET f == vuln.futures[vuln.j] IN
       /\ f.state # "running"
       /\ IF f.state = "failed"
          THEN SetVuln([vuln EXCEPT !.pc = "raised", !.err = "future"])
          ELSE SetVuln([vuln EXCEPT !.j = @ + 1,
                                    !.tool_results = @ \cup {[name |-> f.name,
                                                              timeout |-> f.timeout]}])

\* lines 228-237
FlowReturn ==
    /\ vuln.pc = "collect"
    /\ vuln.j > Len(vuln.futures)
    /\ SetVuln([vuln EXCEPT !.pc = "returned",
                            !.ret = [success |-> TRUE, endpoint_count |-> vuln.total,
                                     executed_tools |-> [i \in DOMAIN vuln.tools |->
                                                            vuln.tools[i].name],
                                     tool_results |-> vuln.tool_results]])

\* ------------------------------------------------------------ asset store
\* asset_models.py and the repositories. A bulk_create call is one INSERT statement per
\* batch_size rows; PostgreSQL arbitrates the conflicting keys of concurrent statements
\* through the unique index, so a statement takes effect as a whole, at one instant.
\* The id sequence is advanced for the rows that are inserted.

MaxBatch == 2
MaxClock == 1

None == "None"

Batches(dtos) == UNION {[1..n -> dtos] : n \in 0..MaxBatch}

\* the responses a directory scan reports for a URL
DirectoryResponses ==
    {[target_id |-> 1, status |-> 200, content_length |-> 10, words |-> 3, lines |-> 1,
      content_type |-> None, duration |-> 5],
     [target_id |-> 2, status |-> 404, content_length |-> 20, words |-> 7, lines |-> 2,
      content_type |-> "text/html", duration |-> 9]}

DirectoryDTO(website_id, url, r) ==
    [website_id |-> website_id, target_id |-> r.target_id, url |-> url, status |-> r.status,
     content_length |-> r.content_length, words |-> r.words, lines |-> r.lines,
     content_type |-> r.content_type, duration |-> r.duration]

DirectoryDTOs == {DirectoryDTO(1, url, r) : url \in {"/a", "/b"}, r \in DirectoryResponses}

SubdomainDTOs == {[name |-> name, target_id |-> 1] : name \in {"a.t", "b.t"}}

Ports == {0, 1, 65535, 65536}

HostPortMappingDTOs == {[target_id |-> 1, host |-> "h", ip |-> "10.0.0.1", port |-> p] : p \in Ports}

\* Meta.constraints of the three models
unique_directory_url_website == {"website_id", "url"}
unique_subdomain_name_target == {"name", "target_id"}
unique_target_host_ip_port == {"target_id", "host", "ip", "port"}

\* directory_repository.py lines 58-61
update_fields_WithoutStatus ==
    {"target_id", "content_length", "words", "lines", "content_type", "duration"}

update_fields_WithDiscoveredAt ==
    {"target_id", "status", "content_length", "words", "lines", "content_type", "duration",
     "discovered_at"}

update_fields ==
    {"target_id", "status", "content_length", "words", "lines", "content_type", "duration"}

batch_size == 1000

\* the rows of table T that a unique constraint sets against the proposed row o
conflicting_NoConstraint(T, o, unique_fields) == {}

conflicting(T, o, unique_fields) == {r \in T : \A f \in unique_fields : r[f] = o[f]}

\* two proposed rows of one statement carry the same key
SameKeyTwice(objs, unique_fields) ==
    \E i, j \in DOMAIN objs : i # j /\ \A f \in unique_fields : objs[i][f] = objs[j][f]

\* INSERT ... ON CONFLICT: the proposed rows, one after the other. A new row takes the
\* next id and discovered_at = t (auto_now_add); a conflicting row is left alone
\* (DO NOTHING) or has the columns of fields set from the proposed row (DO UPDATE)
RECURSIVE insert_on_conflict(_, _, _, _, _, _, _)
insert_on_conflict(T, n, objs, t, unique_fields, on_conflict, fields) ==
    IF objs = <<>> THEN [rows |-> T, seq |-> n]
    ELSE LET proposed == Head(objs) @@ [id |-> n + 1, discovered_at |-> t]
             hit == conflicting(T, proposed, unique_fields)
         IN  IF hit = {}
             THEN insert_on_conflict(T \cup {proposed}, n + 1, Tail(objs), t, unique_fields,
                                     on_conflict, fields)
             ELSE IF on_conflict = "ignore"
             THEN insert_on_conflict(T, n, Tail(objs), t, unique_fields, on_conflict, fields)
             ELSE insert_on_conflict(
                      (T \ hit) \cup {[f \in DOMAIN r |-> IF f \in fields THEN proposed[f]
                                                          ELSE r[f]] : r \in hit},
                      n, Tail(objs), t, unique_fields, on_conflict, fields)

\* QuerySet.bulk_create: one statement per size rows (size 0: a single statement). A DO
\* UPDATE statement that proposes a key twice fails ("cannot affect row a second time")
RECURSIVE bulk_create(_, _, _, _, _, _, _, _)
bulk_create(T, n, objs, t, unique_fields, on_conflict, fields, size) ==
    IF objs = <<>> THEN [ok |-> TRUE, rows |-> T, seq |-> n]
    ELSE LET k == IF size = 0 THEN Len(objs) ELSE Min(Len(objs), size)
             chunk == SubSeq(objs, 1, k)
         IN  IF on_conflict = "update" /\ SameKeyTwice(chunk, unique_fields)
             THEN [ok |-> FALSE, rows |-> T, seq |-> n]
             ELSE LET done == insert_on_conflict(T, n, chunk, t, unique_fields, on_conflict,
                                                 fields)
                  IN  bulk_create(done.rows, done.seq, SubSeq(objs, k + 1, Len(objs)), t,
                                  unique_fields, on_conflict, fields, size)

\* directory_repository.py lines 38-50: Directory(...) of one DTO
Directory(item) ==
    [website_id |-> item.website_id, target_id |-> item.target_id, url |-> item.url,
     status |-> item.status, content_length |-> item.content_length, words |-> item.words,
     lines |-> item.lines,
     content_type |-> IF item.content_type = None THEN "" ELSE item.content_type,
     duration |-> item.duration]

\* subdomain_repository.py lines 30-36
Subdomain(item) == [name |-> item.name, target_id |-> item.target_id]

\* host_port_mapping_repository.py lines 38-46
HostPortMapping(item) ==
    [target_id |-> item.target_id, host |-> item.host, ip |-> item.ip, port |-> item.port]

\* DjangoDirectoryRepository.bulk_upsert: the table, the sequence and the outcome. The
\* statements run in transaction.atomic: a failed statement leaves the table as it was
bulk_upsert(T, n, items, t) ==
    IF items = <<>> THEN [rows |-> T, seq |-> n, result |-> "0"]
    ELSE LET r == bulk_create(T, n, [i \in DOMAIN items |-> Directory(items[i])], t,
                              unique_directory_url_website, "update", update_fields,
                              batch_size)
         IN  IF r.ok THEN [rows |-> r.rows, seq |-> r.seq, result |-> "len"]
             ELSE [rows |-> T, seq |-> n, result |-> "raised"]

\* DjangoSubdomainRepository.bulk_create_ignore_conflicts
subdomain_bulk_create_ignore_conflicts(T, n, items, t) ==
    IF items = <<>> THEN [rows |-> T, seq |-> n, result |-> "None"]
    ELSE LET r == bulk_create(T, n, [i \in DOMAIN items |-> Subdomain(items[i])], t,
                              unique_subdomain_name_target, "ignore", {}, 0)
         IN  [rows |-> r.rows, seq |-> r.seq, result |-> "None"]

\* DjangoHostPortMappingRepository.bulk_create_ignore_conflicts
host_port_bulk_create_ignore_conflicts(T, n, items, t) ==
    IF items = <<>> THEN [rows |-> T, seq |-> n, result |-> "0"]
    ELSE LET r == bulk_create(T, n, [i \in DOMAIN items |-> HostPortMapping(items[i])], t,
                              unique_target_host_ip_port, "ignore", {}, 0)
         IN  [rows |-> r.rows, seq |-> r.seq, result |-> "len"]

NoIds == [directory |-> 0, subdomain |-> 0, host_port_mapping |-> 0, directory_snapshot |-> 0]

NoLast == [repo |-> "none", result |-> "none", hit |-> FALSE]

DirectoryBulkUpsert(items) ==
    LET r == bulk_upsert(directory, nextId.directory, items, now) IN
    /\ directory' = r.rows
    /\ nextId' = [nextId EXCEPT !.directory = r.seq]
    /\ UNCHANGED <<regVars, cmdVars, thrVars, subVars, scanVars, subdomain, host_port_mapping,
                   directory_snapshot, now, scans, sync>>

SubdomainBulkCreate(items) ==
    LET r == subdomain_bulk_create_ignore_conflicts(subdomain, nextId.subdomain, items, now) IN
    /\ subdomain' = r.rows
    /\ nextId' = [nextId EXCEPT !.subdomain = r.seq]
    /\ UNCHANGED <<regVars, cmdVars, thrVars, subVars, scanVars, directory, host_port_mapping,
                   directory_snapshot, now, scans, sync>>

HostPortBulkCreate(items) ==
    LET r == host_port_bulk_create_ignore_conflicts(host_port_mapping,
                                                    nextId.host_port_mapping, items, now) IN
    /\ host_port_mapping' = r.rows
    /\ nextId' = [nextId EXCEPT !.host_port_mapping = r.seq]
    /\ UNCHANGED <<regVars, cmdVars, thrVars, subVars, scanVars, directory, subdomain,
                   directory_snapshot, now, scans, sync>>

\* the database clock advances
ClockTick ==
    /\ now < MaxClock
    /\ now' = now + 1
    /\ UNCHANGED <<regVars, cmdVars, thrVars, subVars, scanVars, directory, subdomain,
                   host_port_mapping, directory_snapshot, nextId, scans, sync, last>>

\* ------------------------------------------------------------ DirectorySnapshotsService
\* directory_snapshots_service.py, directory_service.py. DjangoScanRepository.exists,
\* DjangoDirectorySnapshotRepository.save_snapshots and DirectorySnapshotDTO.to_asset_dto
\* are described in the specification (Snapshot write flow): the Scan is looked up, the
\* snapshot rows are appended, the DTOs lose their scan_id.

MaxSnapshots == 3

ScanIds == {1, 2}

DirectorySnapshotDTOs ==
    {[scan_id |-> s] @@ DirectoryDTO(1, url, r) :
        s \in ScanIds, url \in {"/a", "/b"},
        r \in {x \in DirectoryResponses : x.status = 200}}

existsAlways(scan_id) == TRUE

exists(scan_id) == scan_id \in scans

to_asset_dto(item) == [f \in DOMAIN item \ {"scan_id"} |-> item[f]]

\* the snapshot rows of a batch, appended with the next ids
RECURSIVE save_snapshots(_, _, _)
save_snapshots(T, n, items) ==
    IF items = <<>> THEN [rows |-> T, seq |-> n]
    ELSE save_snapshots(T \cup {Head(items) @@ [id |-> n + 1]}, n + 1, Tail(items))

\* DirectoryService.bulk_upsert
service_bulk_upsert(T, n, directory_dtos, t) ==
    IF directory_dtos = <<>> THEN [rows |-> T, seq |-> n, result |-> "0"]
    ELSE bulk_upsert(T, n, directory_dtos, t)

NoSync == [result |-> "none"]

\* DirectorySnapshotsService.save_and_sync
SaveAndSync(items) ==
    IF items = <<>> \/ ~exists(items[1].scan_id)
    THEN /\ sync' = [result |-> "returned"]
         /\ UNCHANGED <<regVars, cmdVars, thrVars, subVars, scanVars, directory, subdomain,
                        host_port_mapping, directory_snapshot, nextId, now, scans>>
    ELSE LET snap == save_snapshots(directory_snapshot, nextId.directory_snapshot, items)
             asset == service_bulk_upsert(directory, nextId.directory,
                                          [i \in DOMAIN items |-> to_asset_dto(items[i])], now)
         IN  /\ directory_snapshot' = snap.rows
             /\ directory' = asset.rows
             /\ nextId' = [nextId EXCEPT !.directory_snapshot = snap.seq,
                                         !.directory = asset.seq]
             /\ sync' = [result |-> IF asset.result = "raised" THEN "raised" ELSE "returned"]
             /\ UNCHANGED <<regVars, cmdVars, thrVars, subVars, scanVars, subdomain,
                            host_port_mapping, now, scans>>

\* a Scan is deleted
DeleteScan(scan_id) ==
    /\ scan_id \in scans
    /\ scans' = scans \ {scan_id}
    /\ sync' = NoSync
    /\ last' = NoLast
    /\ UNCHANGED <<regVars, cmdVars, thrVars, subVars, scanVars, directory, subdomain,
                   host_port_mapping, directory_snapshot, nextId, now>>

\* ------------------------------------------------------------ initial state of the stores
InitApp ==
    /\ stage = [n \in Scans |-> NoStages]
    /\ vuln = NoVuln
    /\ directory = {}
    /\ subdomain = {}
    /\ host_port_mapping = {}
    /\ directory_snapshot = {}
    /\ nextId = NoIds
    /\ now = 0
    /\ scans = ScanIds
    /\ sync = NoSync
    /\ last = NoLast

\* ------------------------------------------------------------ specifications
InitProgram ==
    /\ load = [w \in Workers |-> NoLoad]
    /\ lock = [w \in Workers |-> 0]
    /\ updating = [w \in Workers |-> 0]
    /\ lastHb = NoHb
    /\ lastUpd = NoUpd
    /\ row = [w \in Workers |-> TRUE]
    /\ destroy = [w \in Workers |-> NoDestroy]
    /\ pc = [t \in Threads |-> "idle"]
    /\ op = [t \in Threads |-> "none"]
    /\ workers = [t \in Threads |-> <<>>]
    /\ seen = [t \in Threads |-> [w \in Workers |-> NoSeen]]
    /\ cands = [t \in Threads |-> {}]
    /\ best = [t \in Threads |-> Nil]
    /\ waitLeft = [t \in Threads |-> 0]
    /\ waited = [t \in Threads |-> 0]
    /\ emitted = [t \in Threads |-> 0]
    /\ docker = [t \in Threads |-> "none"]
    /\ ret = [t \in Threads |-> <<>>]
    /\ prev = [t \in Threads |-> NoPrev]
    /\ ssh = [t \in Threads |-> "none"]
    /\ sinceSubmit = -1
    /\ minGap = TASK_SUBMIT_INTERVAL
    /\ cmd = [c \in Calls |-> NoCmd]
    /\ active = 0
    /\ InitApp

InitCommon ==
    /\ host = <<50, 50>>
    /\ psutil = TRUE
    /\ InitProgram

InitSelect ==
    /\ status \in [Workers -> {"online", "offline", "updating"}]
    /\ InitCommon

InitCandidates ==
    /\ status \in [Workers -> STATUS_CHOICES]
    /\ InitCommon

InitDeterminism ==
    /\ status = [w \in Workers |-> "online"]
    /\ InitCommon

InitFlow ==
    /\ status \in [Workers -> {"online", "pending"}]
    /\ InitCommon

Environment ==
    \/ Tick
    \/ \E w \in Workers, l \in LoadVals : UpdateLoad(w, l[1], l[2])

\* telemetry restricted to one normal and one overloaded value
TieEnvironment ==
    \/ Tick
    \/ \E w \in Workers, l \in TieLoadVals : UpdateLoad(w, l[1], l[2])

SelectSteps(t) ==
    \/ GetOnlineWorkers(t)
    \/ ScoreWorkers(t)
    \/ HighLoadWake(t)
    \/ HighLoadReturn(t)
    \/ Finish(t)

FlowSteps(t) ==
    \/ StartScanFlow(t)
    \/ ThrottleWake(t)
    \/ \E task_type \in TaskTypes \cup {"other"} : StartDeleteTask(t, task_type)
    \/ \E outcome \in {"ok", "nonzero"} : ExecDocker(t, outcome)

\* one caller of select_best_worker and of execute_cleanup_on_all_workers
NextSelect ==
    \/ Environment
    \/ \E t \in SelThreads :
         \/ StartSelect(t)
         \/ SelectSteps(t)
         \/ StartCleanup(t)
         \/ \E outcome \in {"started", "failed"} : CleanupStep(t, outcome)

SpecSelect == InitSelect /\ [][NextSelect]_vars

\* one caller of execute_cleanup_on_all_workers
NextCleanup ==
    \/ Environment
    \/ \E t \in SelThreads :
         \/ StartCleanup(t)
         \/ \E outcome \in CleanupOutcomes : CleanupStep(t, outcome)
         \/ Finish(t)

SpecCleanup == InitSelect /\ [][NextCleanup]_vars

\* one caller of select_best_worker, rows of every status
NextCandidates ==
    \/ Environment
    \/ \E t \in SelThreads : StartSelect(t) \/ SelectSteps(t)

SpecCandidates == InitCandidates /\ [][NextCandidates]_vars

\* one caller that calls select_best_worker again and again
NextDeterminism ==
    \/ TieEnvironment
    \/ \E t \in SelThreads : StartSelect(t) \/ Reselect(t) \/ SelectSteps(t)

SpecDeterminism == InitDeterminism /\ [][NextDeterminism]_vars

\* one caller of execute_scan_flow and execute_delete_task
NextFlow ==
    \/ Environment
    \/ \E t \in SelThreads : FlowSteps(t) \/ SelectSteps(t)

SpecFlow == InitFlow /\ [][NextFlow]_vars

\* one caller of execute_scan_flow, the dispatch meeting every outcome
NextScanFlow ==
    \/ Environment
    \/ \E t \in SelThreads :
         \/ StartScanFlow(t)
         \/ ThrottleWake(t)
         \/ SelectSteps(t)
         \/ \E outcome \in DispatchOutcomes : ExecDocker(t, outcome)

SpecScanFlow == InitFlow /\ [][NextScanFlow]_vars

\* NumThreads concurrent callers of execute_scan_flow
NextDispatch ==
    \/ TieEnvironment
    \/ \E t \in Threads :
         \/ StartScanFlow(t)
         \/ ThrottleWake(t)
         \/ \E outcome \in {"ok", "nonzero"} : ExecDocker(t, outcome)
         \/ SelectSteps(t)

SpecDispatch == InitDeterminism /\ [][NextDispatch]_vars

\* the worker registry: heartbeats of every worker and the remote updates they start
Init ==
    /\ status \in [Workers -> STATUS_CHOICES]
    /\ InitCommon

Next ==
    \/ Tick
    \/ \E w \in Workers, l \in HbLoadVals, ver \in Versions : Heartbeat(w, l[1], l[2], ver)
    \/ \E w \in Workers, success \in BOOLEAN : AsyncUpdateEnds(w, success)

Spec == Init /\ [][Next]_vars

\* deletion of workers while their agents keep sending heartbeats
NextDestroy ==
    \/ Tick
    \/ \E w \in Workers, l \in HbLoadVals : Heartbeat(w, l[1], l[2], SERVER_VERSION)
    \/ \E w \in Workers : DestroyStep(w)
    \/ \E w \in Workers, outcome \in UninstallOutcomes : UninstallEnds(w, outcome)

SpecDestroy == InitFlow /\ [][NextDestroy]_vars

\* the scheduler at work while the agents, all of an old version, keep reporting
NextUpdating ==
    \/ Tick
    \/ \E w \in Workers, l \in TieLoadVals : Heartbeat(w, l[1], l[2], "v1")
    \/ \E w \in Workers, success \in BOOLEAN : AsyncUpdateEnds(w, success)
    \/ \E t \in SelThreads :
         \/ FlowSteps(t)
         \/ SelectSteps(t)
         \/ StartCleanup(t)
         \/ \E outcome \in CleanupOutcomes : CleanupStep(t, outcome)

SpecUpdating == InitDeterminism /\ [][NextUpdating]_vars

InitExec ==
    /\ status = [w \in Workers |-> "online"]
    /\ host \in HostLoads
    /\ psutil \in BOOLEAN
    /\ InitProgram

AdmissionSteps(c) == DelayOver(c) \/ PollWake(c)

WaitSteps(c) ==
    \/ \E hasLog \in BOOLEAN : StartWait(c, hasLog)
    \/ \E outcome \in LaunchOutcomes, kids \in KidStates : LaunchWait(c, outcome, kids)
    \/ WaitReturns(c)
    \/ WaitTimeout(c)
    \/ WaitInterrupted(c)

StreamSteps(c) ==
    \/ \E hasLog, openOk \in BOOLEAN, timeout \in {0, ExecTimeout} :
          StartStream(c, hasLog, timeout, openOk)
    \/ \E ok \in BOOLEAN, kids \in KidStates : LaunchStream(c, ok, kids)
    \/ TimerFires(c)
    \/ StreamYield(c)
    \/ ConsumerNext(c)
    \/ StreamEOF(c)
    \/ ConsumerAbort(c)

ProcessSteps(c) ==
    \/ \E rc \in ExitCodes : ProcExits(c, rc)
    \/ KidsExit(c)

ExecEnvironment ==
    \/ Tick
    \/ \E l \in HostLoads : HostChanges(l)

\* one execute_and_wait invocation at a time
NextWait ==
    \/ ExecEnvironment
    \/ \E c \in OneCall :
         AdmissionSteps(c) \/ WaitSteps(c) \/ ProcessSteps(c) \/ ExecReturn(c)

SpecWait == InitExec /\ [][NextWait]_vars

\* one execute_stream generator at a time
NextStream ==
    \/ ExecEnvironment
    \/ \E c \in OneCall :
         AdmissionSteps(c) \/ StreamSteps(c) \/ ProcessSteps(c) \/ ExecReturn(c)

SpecStream == InitExec /\ [][NextStream]_vars

\* one invocation at a time, of either kind
NextCall ==
    \/ ExecEnvironment
    \/ \E c \in OneCall :
         \/ AdmissionSteps(c)
         \/ WaitSteps(c)
         \/ StreamSteps(c)
         \/ ProcessSteps(c)
         \/ ExecReturn(c)

SpecCall == InitExec /\ [][NextCall]_vars

\* the same with time passing and the calling thread scheduled: a sleep that is
\* over returns, and a call that may launch its subprocess does so
SpecCallFair ==
    /\ SpecCall
    /\ WF_vars(Tick)
    /\ \A c \in OneCall :
          /\ WF_vars(AdmissionSteps(c))
          /\ WF_vars(\E outcome \in LaunchOutcomes, kids \in KidStates :
                         LaunchWait(c, outcome, kids))
          /\ WF_vars(\E ok \in BOOLEAN, kids \in KidStates : LaunchStream(c, ok, kids))

\* NumCalls concurrent invocations of either kind in one process, without log
\* files, stream timeouts and descendant processes
NextExec ==
    \/ ExecEnvironment
    \/ \E c \in Calls :
         \/ AdmissionSteps(c)
         \/ StartWait(c, FALSE)
         \/ \E outcome \in {"ok", "popen_fails"} : LaunchWait(c, outcome, "none")
         \/ WaitReturns(c)
         \/ WaitTimeout(c)
         \/ StartStream(c, FALSE, 0, TRUE)
         \/ \E ok \in BOOLEAN : LaunchStream(c, ok, "none")
         \/ StreamYield(c)
         \/ ConsumerNext(c)
         \/ StreamEOF(c)
         \/ ConsumerAbort(c)
         \/ \E rc \in ExitCodes : ProcExits(c, rc)
         \/ ExecReturn(c)

SpecExec == InitExec /\ [][NextExec]_vars

\* one invocation at a time, of either kind, with the subprocess of execute_and_wait
\* writing to the log file it was given
NextLog ==
    \/ NextCall
    \/ \E c \in OneCall : ProcWrites(c)

SpecLog == InitExec /\ [][NextLog]_vars

\* the workers are up; no flow has started and the tables are empty
InitScan ==
    /\ status = [w \in Workers |-> "online"]
    /\ InitCommon

\* the stage flows of every scan, as the runner starts and awaits them
NextPipeline == \E n \in Scans, s \in Stages : StageStarts(n, s) \/ StageEnds(n, s)

SpecPipeline == InitScan /\ [][NextPipeline]_vars

\* one invocation of endpoints_vuln_scan_flow and the tasks it submits
NextVuln ==
    \/ /\ vuln.pc = "idle"
       /\ \E args \in Arguments, tools \in EnabledTools, export \in ExportOutcomes :
             FlowStart(args, tools, export)
    \/ /\ vuln.pc = "idle"
       /\ \E args \in Arguments, tools \in EnabledTools : ExportFails(args, tools)
    \/ FlowSubmit
    \/ FlowSubmitted
    \/ \E k \in 1..Cardinality(VulnTools), outcome \in TaskOutcomes : TaskEnds(k, outcome)
    \/ FlowCollect
    \/ FlowReturn

SpecVuln == InitScan /\ [][NextVuln]_vars

\* the calls of the three repositories, by any number of producers, in any order, all
\* at one instant of the database clock
NextStore ==
    \/ \E items \in Batches(DirectoryDTOs) : DirectoryBulkUpsert(items) /\ UNCHANGED last
    \/ \E items \in Batches(SubdomainDTOs) : SubdomainBulkCreate(items) /\ UNCHANGED last
    \/ \E items \in Batches(HostPortMappingDTOs) : HostPortBulkCreate(items) /\ UNCHANGED last

SpecStore == InitScan /\ [][NextStore]_vars

\* history of the repository calls: the call just made, its outcome, and whether one
\* of its items met a row that was already there
Called(repo, result, hit) == last' = [repo |-> repo, result |-> result, hit |-> hit]

Met(T, objs, unique_fields) ==
    \E i \in DOMAIN objs : conflicting(T, objs[i], unique_fields) # {}

\* the calls of one repository as time passes. The three tables share no state: the
\* calls on one table neither read nor write another, so each table is explored alone
NextAssets ==
    \/ /\ subdomain = {} /\ host_port_mapping = {}
       /\ \E items \in Batches(DirectoryDTOs) :
             /\ DirectoryBulkUpsert(items)
             /\ Called("directory",
                       bulk_upsert(directory, nextId.directory, items, now).result,
                       Met(directory, items, unique_directory_url_website))
    \/ /\ directory = {} /\ host_port_mapping = {}
       /\ \E items \in Batches(SubdomainDTOs) :
             /\ SubdomainBulkCreate(items)
             /\ Called("subdomain", "None",
                       Met(subdomain, items, unique_subdomain_name_target))
    \/ /\ directory = {} /\ subdomain = {}
       /\ \E items \in Batches(HostPortMappingDTOs) :
             /\ HostPortBulkCreate(items)
             /\ Called("host_port_mapping",
                       host_port_bulk_create_ignore_conflicts(
                           host_port_mapping, nextId.host_port_mapping, items, now).result,
                       Met(host_port_mapping, items, unique_target_host_ip_port))
    \/ ClockTick

SpecAssets == InitScan /\ [][NextAssets]_vars

\* what a batch handed to save_and_sync refers to: nothing, Scans that are all gone,
\* Scans that all exist, or both kinds
Refers(items) ==
    IF items = <<>> THEN "empty"
    ELSE IF \A i \in DOMAIN items : items[i].scan_id \notin scans THEN "gone"
    ELSE IF \A i \in DOMAIN items : items[i].scan_id \in scans THEN "live"
    ELSE "mixed"

\* the ingestors hand batches to save_and_sync while Scans are deleted
NextSync ==
    \/ \E items \in Batches(DirectorySnapshotDTOs) :
          /\ Cardinality(directory_snapshot) + Len(items) <= MaxSnapshots
          /\ SaveAndSync(items)
          /\ Called("save_and_sync", Refers(items), FALSE)
    \/ \E scan_id \in ScanIds : DeleteScan(scan_id)

SpecSync == InitScan /\ [][NextSync]_vars


\* ======================================================================
\* Properties
\* ======================================================================
SelectDone(t) == pc[t] = "done" /\ op[t] = "select"

\* the workers the finished call found online with telemetry, and its normal ones
CandSet(t) == {w \in Range(workers[t]) : seen[t][w].live}

NormalSet(t) ==
    {w \in CandSet(t) : seen[t][w].cpu <= HIGH_LOAD_THRESHOLD /\ seen[t][w].mem <= HIGH_LOAD_THRESHOLD}

MinScoreIn(t, w, S) == w \in S /\ \A o \in S : Score(seen[t][w]) <= Score(seen[t][o])

\* C1: when at least one online worker with telemetry has cpu <= 85 and mem <= 85,
\* select_best_worker returns a worker of that normal set (85/85 included) whose
\* score cpu*0.7 + mem*0.3 is minimal over the normal set, never an overloaded one.
C1_NormalMinimum ==
    \A t \in Threads :
        SelectDone(t) /\ NormalSet(t) # {} => MinScoreIn(t, best[t], NormalSet(t))

\* a worker at exactly 85/85 is returned although an overloaded worker scores lower
C1_Witness ==
    \E t \in Threads :
        /\ SelectDone(t)
        /\ best[t] # Nil
        /\ seen[t][best[t]].cpu = 85 /\ seen[t][best[t]].mem = 85
        /\ \E o \in CandSet(t) : Score(seen[t][o]) < Score(seen[t][best[t]])

AllHigh(t) == CandSet(t) # {} /\ NormalSet(t) = {}

\* C2: when every online worker with telemetry is overloaded, select_best_worker
\* waits HIGH_LOAD_WAIT_SECONDS, then emits all_workers_high_load exactly once,
\* then returns the minimum-score overloaded worker; a call that returns a normal
\* worker or nil emits nothing.
C2_DegradedPath ==
    \A t \in Threads :
        /\ pc[t] = "high_load_sleep" => emitted[t] = 0
        /\ pc[t] = "high_load_return" =>
              waited[t] >= HIGH_LOAD_WAIT_SECONDS /\ emitted[t] = 1
        /\ SelectDone(t) =>
              IF AllHigh(t)
              THEN /\ waited[t] >= HIGH_LOAD_WAIT_SECONDS
                   /\ emitted[t] = 1
                   /\ MinScoreIn(t, best[t], CandSet(t))
              ELSE emitted[t] = 0

\* scenario 2 of the spec: two overloaded workers, the lower score is returned
C2_Witness ==
    \E t \in Threads :
        /\ SelectDone(t) /\ AllHigh(t) /\ emitted[t] = 1
        /\ Cardinality(CandSet(t)) = 2
        /\ \E o \in CandSet(t) : Score(seen[t][o]) > Score(seen[t][best[t]])

\* the step in which select_best_worker returns to its caller
SelectReturnStep(t) ==
    /\ pc[t] \in {"get_workers", "get_loads", "high_load_return"}
    /\ pc'[t] \in {"done", "exec"}

\* no row with status online/offline has live telemetry where the call looks
SawNoCandidate(t) ==
    IF pc[t] = "get_workers"
    THEN {w \in Workers : status[w] \in {"online", "offline"} /\ load[w].ttl > 0} = {}
    ELSE IF pc[t] = "get_loads"
    THEN {w \in Range(workers[t]) :
             status[w] \in {"online", "offline"} /\ load[w].ttl > 0} = {}
    ELSE FALSE

\* C3: select_best_worker returns nil exactly when the call finds no row with
\* status online/offline that has live telemetry; then execute_scan_flow returns
\* (false, message, nil, nil), execute_delete_task (false, message, nil), and no
\* docker command is built or executed.
C3_NilResult ==
    /\ [][\A t \in Threads :
            SelectReturnStep(t) =>
                /\ best'[t] = Nil <=> SawNoCandidate(t)
                /\ best'[t] = Nil =>
                      /\ pc'[t] = "done"
                      /\ docker'[t] = "none"
                      /\ op[t] = "scan" => ret'[t] = <<FALSE, "no_worker", "none", Nil>>
                      /\ op[t] = "delete" => ret'[t] = <<FALSE, "no_worker", "none">>]_vars
    /\ [](\A t \in Threads : pc[t] = "done" /\ best[t] = Nil => docker[t] = "none")

\* a scan flow ended without worker although a pending row has live telemetry
C3_Witness ==
    \E t \in Threads :
        /\ pc[t] = "done" /\ op[t] = "scan"
        /\ ret[t] = <<FALSE, "no_worker", "none", Nil>>
        /\ docker[t] = "none"
        /\ \E w \in Workers : status[w] = "pending" /\ load[w].ttl > 0

\* C4: the candidates of select_best_worker are exactly the rows with status
\* online or offline for which the Load Registry holds a live record when the
\* call consults it: no pending/deploying/updating/outdated row is a candidate
\* even with live telemetry, and no row without live telemetry is one.
C4_CandidateSet ==
    /\ [][\A t \in Threads :
            /\ pc[t] = "get_workers" /\ pc'[t] # "get_workers" =>
                  Range(workers'[t]) =
                      {w \in Workers : status[w] \in {"online", "offline"} /\ load[w].ttl > 0}
            /\ pc[t] = "get_loads" /\ pc'[t] # "get_loads" =>
                  cands'[t] = {w \in Range(workers[t]) : load[w].ttl > 0}]_vars
    /\ [](\A t \in Threads : \A w \in cands[t] : status[w] \in {"online", "offline"})

\* a call chose among its candidates while an updating row had live telemetry
C4_Witness ==
    \E t \in Threads :
        /\ SelectDone(t) /\ cands[t] # {}
        /\ \E w \in Workers \ cands[t] :
              status[w] \in {"pending", "deploying", "updating", "outdated"} /\ load[w].ttl > 0

SameView(t) == prev[t].valid /\ prev[t].workers = workers[t] /\ prev[t].seen = seen[t]

C6_SubmitInterval == minGap >= TASK_SUBMIT_INTERVAL

\* C7: a worker whose telemetry TTL has elapsed since its last heartbeat is never
\* returned by select_best_worker nor included by execute_cleanup_on_all_workers.
C7_ExpiredNeverChosen ==
    [][\A t \in Threads :
          /\ SelectReturnStep(t) /\ best'[t] # Nil => load[best'[t]].ttl > 0
          /\ pc[t] = "idle" /\ op'[t] = "cleanup" =>
                \A w \in Range(workers'[t]) : load[w].ttl > 0]_vars

\* a heartbeat has just been processed
HbStep == lastHb'.n # lastHb.n

\* C8 as stated: a pending or deploying worker is online after its first heartbeat,
\* for any reported version and for local and remote workers alike.
C8_FirstHeartbeatOnline ==
    [][HbStep /\ lastHb'.pre \in {"pending", "deploying"} =>
          status'[lastHb'.w] = "online"]_vars

\* C8 amended: a pending or deploying worker is online after its first heartbeat
\* when the version is absent, 'unknown' or the server's; with another version the
\* version check of the same handler applies: local -> outdated, remote ->
\* updating (online when the update lock is held).
C8_FirstHeartbeat ==
    [][HbStep /\ lastHb'.pre \in {"pending", "deploying"} =>
          status'[lastHb'.w] =
              IF lastHb'.ver \in {"", "unknown", SERVER_VERSION} THEN "online"
              ELSE IF is_local(lastHb'.w) THEN "outdated"
              ELSE IF lastHb'.free THEN "updating"
              ELSE "online"]_vars

\* a deploying remote worker reported the server's version and is online
C8_Witness ==
    /\ lastHb.w # Nil /\ ~is_local(lastHb.w)
    /\ lastHb.pre = "deploying" /\ lastHb.ver = SERVER_VERSION
    /\ status[lastHb.w] = "online"

\* C9 as stated: an online, offline, updating or outdated worker is online after a
\* heartbeat with the server's version.
C9_MatchingVersionOnline ==
    [][HbStep /\ lastHb'.pre \in {"online", "offline", "updating", "outdated"}
              /\ lastHb'.ver = SERVER_VERSION =>
          status'[lastHb'.w] = "online"]_vars

\* C9 amended: an online, updating or outdated worker is online after a heartbeat
\* with the server's version; an offline worker stays offline.
C9_MatchingVersion ==
    [][HbStep /\ lastHb'.ver = SERVER_VERSION =>
          /\ lastHb'.pre \in {"online", "updating", "outdated"} =>
                status'[lastHb'.w] = "online"
          /\ lastHb'.pre = "offline" => status'[lastHb'.w] = "offline"]_vars

\* an outdated worker reported the server's version and is online
C9_Witness ==
    /\ lastHb.w # Nil
    /\ lastHb.pre = "outdated" /\ lastHb.ver = SERVER_VERSION
    /\ status[lastHb.w] = "online"

\* C10 as stated: an online remote worker is updating after a heartbeat whose
\* version differs from the server's.
C10_MismatchUpdating ==
    [][HbStep /\ ~is_local(lastHb'.w) /\ lastHb'.pre = "online"
              /\ lastHb'.ver # SERVER_VERSION =>
          status'[lastHb'.w] = "updating"]_vars

\* C10 amended: an online remote worker is updating after a heartbeat whose version
\* is present, not 'unknown' and differs from the server's, provided the update
\* lock of the worker is free; with the lock held, or with an absent or 'unknown'
\* version, it stays online.
C10_MismatchRemote ==
    [][HbStep /\ ~is_local(lastHb'.w) /\ lastHb'.pre = "online"
              /\ lastHb'.ver # SERVER_VERSION =>
          status'[lastHb'.w] =
              IF lastHb'.ver \notin {"", "unknown"} /\ lastHb'.free
              THEN "updating" ELSE "online"]_vars

\* an online remote worker reported an old version and is updating, lock taken
C10_Witness ==
    /\ lastHb.w # Nil /\ ~is_local(lastHb.w)
    /\ lastHb.pre = "online" /\ lastHb.ver = "v1" /\ lastHb.free
    /\ status[lastHb.w] = "updating"
    /\ lock[lastHb.w] > 0

\* the version is present, not 'unknown' and not the server's
Mismatch(ver) == ver \notin {"", "unknown", SERVER_VERSION}

\* C11: after the heartbeat handler processes a heartbeat of a local worker whose
\* version is present, not 'unknown' and differs from the server's, the worker is
\* outdated whatever its status was, and no remote update is started for it: the
\* update lock is not taken and no _async_update thread ever runs for it.
C11_LocalOutdated ==
    /\ [][HbStep /\ is_local(lastHb'.w) /\ Mismatch(lastHb'.ver) =>
             /\ status'[lastHb'.w] = "outdated"
             /\ updating' = updating
             /\ lock' = lock]_vars
    /\ [](\A w \in Workers : is_local(w) => updating[w] = 0 /\ lock[w] = 0)

\* an online local worker reported an old version and is outdated, no update runs
C11_Witness ==
    /\ lastHb.w # Nil /\ is_local(lastHb.w)
    /\ lastHb.pre = "online" /\ lastHb.ver = "v1"
    /\ status[lastHb.w] = "outdated"
    /\ updating[lastHb.w] = 0

\* an _async_update thread of worker w has just ended
UpdateEndStep(w) == updating'[w] < updating[w]

\* C12: when a remote-update attempt fails or raises, the worker is set to outdated
\* and the update lock of the worker is deleted; when it succeeds the background
\* thread leaves every status as it is (and deletes the lock as well).
C12_UpdateOutcome ==
    [][\A w \in Workers :
          UpdateEndStep(w) =>
              /\ lastUpd' \in {w, NoUpd}
              /\ lock'[w] = 0
              /\ lastUpd' = w => status'[w] = "outdated"
              /\ lastUpd' = NoUpd => status' = status]_vars

\* a failed attempt left its worker outdated with the lock released
C12_Witness ==
    /\ lastUpd # NoUpd
    /\ status[lastUpd] = "outdated"
    /\ lock[lastUpd] = 0
    /\ updating[lastUpd] = 0

\* C13: at any moment at most one remote-update attempt is in progress per worker.
C13_SingleUpdate == \A w \in Workers : updating[w] <= 1

SampleLow(r) ==
    r.sample.taken /\ r.sample.cpu < SCAN_CPU_HIGH /\ r.sample.mem < SCAN_MEM_HIGH

Launched(r) == r.leader # "none"

HostLow == host[1] < SCAN_CPU_HIGH /\ host[2] < SCAN_MEM_HIGH

\* Popen was reached: the subprocess exists, or opening the log or Popen raised
LaunchTried(r) == Launched(r) \/ r.result \in {"error", "launch_error"}

InFlight(c) == cmd[c].pc \in {"launch", "communicate", "reading", "yielded"}

\* C17: _ACTIVE_COMMANDS is never negative and equals the number of invocations
\* that passed admission and have not finished their finalizer; when every
\* invocation has ended, on whatever path, it is 0.
C17_ActiveCounter ==
    /\ active >= 0
    /\ active = Cardinality({c \in Calls : InFlight(c)})
    /\ (\A c \in Calls : ~InFlight(c) /\ cmd[c].pc \notin {"delay", "poll_sleep"}) => active = 0

StreamOver(c) == cmd[c].mode = "stream" /\ cmd[c].pc \in {"returned", "closed"}

\* C18: once the finalizer of execute_stream has completed, neither the shell
\* leader nor any descendant in its process group is still running.
C18_NoProcessLeft ==
    \A c \in Calls : StreamOver(c) => cmd[c].leader # "running" /\ cmd[c].kids = "none"

StepRank(step) ==
    CASE step = "cancel_timer" -> 1
      [] step = "ensure_exit" -> 2
      [] step = "close_io" -> 3
      [] step = "close_log" -> 4
      [] step = "footer" -> 5
      [] step = "release_slot" -> 6

\* the finalizer ran all its steps, in order, with their effects
Finalized(r) ==
    /\ \A i, j \in 1..Len(r.steps) : i < j => StepRank(r.steps[i]) < StepRank(r.steps[j])
    /\ {"ensure_exit", "close_io", "release_slot"} \subseteq Range(r.steps)
    /\ r.timeout > 0 => "cancel_timer" \in Range(r.steps)
    /\ r.log => {"close_log", "footer"} \subseteq Range(r.steps)
    /\ r.timer # "armed"
    /\ r.leader = "exited"
    /\ r.handle # "open"
    /\ ~r.slot

C20_WaitTimeout ==
    /\ [](\A c \in Calls :
             cmd[c].mode = "wait" =>
                /\ cmd[c].result = "timeout_error" =>
                       /\ cmd[c].pc = "raised"
                       /\ cmd[c].killed /\ cmd[c].leader = "exited"
                       /\ cmd[c].handle # "open"
                       /\ ~cmd[c].slot /\ active = 0
                /\ cmd[c].pc = "returned" =>
                       /\ ~cmd[c].killed /\ cmd[c].code \in ExitCodes
                       /\ cmd[c].result = IF cmd[c].code = 0 THEN "ok" ELSE "nonzero"
                       /\ cmd[c].handle # "open"
                       /\ ~cmd[c].slot)
    /\ [][\A c \in Calls :
             cmd[c].pc = "communicate" /\ cmd[c].leader = "running" =>
                /\ cmd'[c].pc # "returned"
                /\ cmd'[c].result = "timeout_error" => cmd[c].tleft = 0]_vars

\* a command with a log file ran into its timeout
C20_Witness ==
    \E c \in Calls :
        /\ cmd[c].mode = "wait" /\ cmd[c].result = "timeout_error"
        /\ cmd[c].killed /\ cmd[c].handle = "closed" /\ active = 0

\* C21: when the watchdog timer of execute_stream has fired and killed the process
\* group, the generator ends by raising subprocess.TimeoutExpired, never as a
\* normal end of the stream.
C21_TimeoutRaised ==
    \A c \in Calls :
        cmd[c].mode = "stream" /\ cmd[c].timer = "fired" /\ cmd[c].killed
            /\ cmd[c].pc \in {"returned", "raised"} =>
                cmd[c].pc = "raised" /\ cmd[c].result = "timeout_error"

\* the orderings the execution graph promises: <<p, q>> means q starts only after p ended
StageBefore ==
    {<<"subdomain_discovery", "port_scan">>, <<"port_scan", "site_scan">>,
     <<"site_scan", "url_fetch">>, <<"site_scan", "directory_scan">>,
     <<"url_fetch", "vuln_scan">>, <<"directory_scan", "vuln_scan">>}

\* the places of EXECUTION_STAGES that name stage s
PlacesOf(s) ==
    {pl \in (DOMAIN EXECUTION_STAGES) \X (1..Len(COMMAND_TEMPLATES)) :
        /\ pl[2] \in DOMAIN EXECUTION_STAGES[pl[1]].flows
        /\ EXECUTION_STAGES[pl[1]].flows[pl[2]] = s}

\* C22: within a scan, port_scan starts only after subdomain_discovery has ended and
\* site_scan only after port_scan; url_fetch and directory_scan start only after
\* site_scan has ended and neither waits for the other; vuln_scan starts only after
\* both have ended; every supported stage is named by exactly one group.
C22_StageOrder ==
    /\ \A n \in Scans : \A o \in StageBefore :
          stage[n][o[2]] # "pending" => stage[n][o[1]] = "done"
    /\ \A n \in Scans :
          stage[n]["site_scan"] = "done" =>
              /\ stage[n]["url_fetch"] = "pending" => MayStart(n, "url_fetch")
              /\ stage[n]["directory_scan"] = "pending" => MayStart(n, "directory_scan")
    /\ \A s \in Stages : Cardinality(PlacesOf(s)) = 1

\* url_fetch and directory_scan of one scan run at the same time
C22_Witness ==
    \E n \in Scans : stage[n]["url_fetch"] = "running" /\ stage[n]["directory_scan"] = "running"

FlowOver == vuln.pc \in {"returned", "raised"}

\* the names of the tools that have an entry in tool_results
Recorded(results) == {r.name : r \in results}

\* C23: when every tool of the vuln_scan stage was submitted and the task of one of
\* them failed, the stage still returns: the results of every other submitted tool are
\* collected and success is reported when at least one tool ended normally.
C23_FailedToolDoesNotAbort ==
    (/\ FlowOver
     /\ vuln.err \notin {"ValueError", "OverflowError", "export"}
     /\ \E k \in DOMAIN vuln.futures : vuln.futures[k].state = "failed") =>
        /\ vuln.pc = "returned"
        /\ \A k \in DOMAIN vuln.futures :
              vuln.futures[k].state = "completed" =>
                  vuln.futures[k].name \in Recorded(vuln.ret.tool_results)
        /\ vuln.ret.success <=> \E k \in DOMAIN vuln.futures : vuln.futures[k].state = "completed"

\* C24: when the endpoint export yields zero endpoints, or the input file is missing or
\* empty, the stage returns success with endpoint_count = 0, no executed tools and no
\* tool results; no tool task is submitted and no template repository is materialized.
C24_EmptyInputShortCircuit ==
    (vuln.exported /\ (vuln.total = 0 \/ vuln.file = -1 \/ vuln.file = 0)) =>
        /\ vuln.pc = "returned"
        /\ vuln.ret = [success |-> TRUE, endpoint_count |-> 0, executed_tools |-> <<>>,
                       tool_results |-> {}]
        /\ vuln.futures = <<>>
        /\ ~vuln.repos

\* a stage with a usable nuclei configuration was short-circuited although the export
\* counted endpoints: the input file was empty
C24_Witness ==
    /\ vuln.pc = "returned"
    /\ vuln.total > 0 /\ vuln.file = 0
    /\ \E i \in DOMAIN vuln.tools :
          vuln.tools[i].name = "nuclei" /\ vuln.tools[i].config.repos = "ok"
    /\ vuln.ret.endpoint_count = 0

\* the position of the enabled tool called name
ToolIndex(name) ==
    (CHOOSE i \in DOMAIN vuln.tools : vuln.tools[i].name = name)

\* the configured timeout values that Python cannot turn into an integer
NotAnInteger == {StrV(<<"a", "b", "c">>), NoneV, FloatInf}

\* C25: a submitted tool whose timeout is "auto" runs with the line-count based timeout,
\* 30 seconds per line for nuclei and 100 for every other tool; one whose timeout is an
\* integer, a decimal string or a float runs with that value as an integer; a tool whose
\* timeout cannot be coerced is never submitted and makes the flow raise.
C25_TimeoutResolution ==
    /\ \A k \in DOMAIN vuln.futures :
          LET f == vuln.futures[k]
              raw == vuln.tools[ToolIndex(f.name)].config.timeout
          IN  /\ raw = AutoV =>
                    f.timeout = Max(min_timeout,
                                    vuln.file * (IF f.name = "nuclei" THEN 30 ELSE 100))
              /\ raw = IntV(30) => f.timeout = 30
              /\ raw = StrV(<<" ", "6", "0">>) => f.timeout = 60
              /\ raw = FloatV(127) => f.timeout = 12
              /\ raw = Missing => f.timeout = 600
              /\ raw \notin NotAnInteger
    /\ \A name \in vuln.resolved :
          vuln.tools[ToolIndex(name)].config.timeout \in NotAnInteger =>
              /\ vuln.pc = "raised"
              /\ vuln.err \in {"ValueError", "OverflowError"}
              /\ \A k \in DOMAIN vuln.futures : vuln.futures[k].name # name

\* nuclei and dalfox_xss both run with "auto" on a two-line input, and differ
C25_Witness ==
    /\ Len(vuln.futures) = 2
    /\ \A k \in 1..2 : vuln.tools[ToolIndex(vuln.futures[k].name)].config.timeout = AutoV
    /\ vuln.file = MaxLines
    /\ vuln.futures[1].timeout # vuln.futures[2].timeout

\* no two rows of T agree on all of fields
OneRowPerKey(T, fields) ==
    \A r1, r2 \in T : (\A f \in fields : r1[f] = r2[f]) => r1 = r2

\* C26: after any sequence of Directory bulk_upsert, Subdomain bulk_create_ignore_conflicts
\* and HostPortMapping bulk_create_ignore_conflicts calls, whatever their order and
\* whatever keys a batch repeats, there is at most one Directory row per (website, url),
\* one Subdomain row per (target, name) and one HostPortMapping row per
\* (target, host, ip, port).
C26_OneRowPerKey ==
    /\ OneRowPerKey(directory, {"website_id", "url"})
    /\ OneRowPerKey(subdomain, {"target_id", "name"})
    /\ OneRowPerKey(host_port_mapping, {"target_id", "host", "ip", "port"})

\* the three tables hold rows, the directory table one for each URL
C26_Witness ==
    /\ Cardinality(directory) = 2
    /\ subdomain # {}
    /\ Cardinality(host_port_mapping) >= 2

\* the values bulk_upsert stores for a DTO
Stored(rec, item) ==
    /\ rec.target_id = item.target_id
    /\ rec.status = item.status
    /\ rec.content_length = item.content_length
    /\ rec.words = item.words
    /\ rec.lines = item.lines
    /\ rec.content_type = (IF item.content_type = None THEN "" ELSE item.content_type)
    /\ rec.duration = item.duration

\* every row of T is still in T' with its id and discovered_at, and every row that is
\* new in T' carries the time of the call
FirstSeenKept(T, Tnext, fields) ==
    /\ \A r \in T : \E r2 \in Tnext :
          /\ r2.id = r.id /\ r2.discovered_at = r.discovered_at
          /\ \A f \in fields : r2[f] = r[f]
    /\ \A r2 \in Tnext : (\A r \in T : r.id # r2.id) => r2.discovered_at = now

\* a successful bulk_upsert of any batch leaves, for every item that meets a row, that
\* row with the values of the item, its id and its discovered_at
OverwritesOnConflict ==
    \A items \in Batches(DirectoryDTOs) :
        LET r == bulk_upsert(directory, nextId.directory, items, now) IN
        r.result = "len" =>
            \A i \in DOMAIN items : \A old \in directory :
                old.website_id = items[i].website_id /\ old.url = items[i].url =>
                    \E new \in r.rows :
                        /\ new.id = old.id /\ new.discovered_at = old.discovered_at
                        /\ new.website_id = old.website_id /\ new.url = old.url
                        /\ Stored(new, items[i])

\* C27: a row of Directory, Subdomain or HostPortMapping keeps the discovered_at of the
\* call that inserted it through every later call; a Directory upsert that meets a row
\* sets status, content_length, words, lines, content_type, duration and target from the
\* item and leaves discovered_at and the id of the row as they were.
C27_FirstSeenAndOverwrite ==
    /\ []OverwritesOnConflict
    /\ [][/\ FirstSeenKept(directory, directory', {"website_id", "url"})
          /\ FirstSeenKept(subdomain, subdomain', {"target_id", "name"})
          /\ FirstSeenKept(host_port_mapping, host_port_mapping',
                           {"target_id", "host", "ip", "port"})]_vars

\* an upsert met a row that was inserted earlier and now holds the second response
C27_Witness ==
    /\ last.repo = "directory" /\ last.hit /\ last.result = "len"
    /\ \E r \in directory :
          r.discovered_at < now /\ r.status = 404 /\ r.content_type = "text/html"
    /\ \E r \in directory : r.content_type = ""

\* C28: for every batch, applying it a second time, then or later, leaves the table as
\* the first application left it: Subdomain and HostPortMapping rows are left alone on
\* conflict, Directory rows are overwritten with equal values.
C28_Idempotent ==
    \A t \in now..MaxClock :
        /\ \A items \in Batches(DirectoryDTOs) :
              LET once == bulk_upsert(directory, nextId.directory, items, now) IN
              bulk_upsert(once.rows, once.seq, items, t).rows = once.rows
        /\ \A items \in Batches(SubdomainDTOs) :
              LET once == subdomain_bulk_create_ignore_conflicts(
                              subdomain, nextId.subdomain, items, now) IN
              subdomain_bulk_create_ignore_conflicts(once.rows, once.seq, items, t).rows
                  = once.rows
        /\ \A items \in Batches(HostPortMappingDTOs) :
              LET once == host_port_bulk_create_ignore_conflicts(
                              host_port_mapping, nextId.host_port_mapping, items, now) IN
              host_port_bulk_create_ignore_conflicts(once.rows, once.seq, items, t).rows
                  = once.rows

\* the table is what a batch of two items made it, the batch has been applied again at
\* a later time, and the table is still the same
C28_Witness ==
    /\ last.repo = "directory" /\ last.hit /\ last.result = "len"
    /\ \E items \in Batches(DirectoryDTOs) :
          /\ Len(items) = 2
          /\ bulk_upsert({}, 0, items, 0).rows = directory
          /\ bulk_upsert(directory, nextId.directory, items, now).rows = directory
    /\ now > 0

\* C29: every row of host_port_mapping has a port between 1 and 65535.
C29_PortInRange ==
    \A r \in host_port_mapping : 1 <= r.port /\ r.port <= 65535

\* C30: a save_and_sync call whose items refer to a Scan that no longer exists adds no
\* directory_snapshot row and adds or changes no directory row, and returns normally;
\* so does a call with an empty batch.
C30_DroppedWhenScanGone ==
    [][last'.repo = "save_and_sync" /\ last'.result \in {"empty", "gone"} =>
          /\ directory_snapshot' = directory_snapshot
          /\ directory' = directory
          /\ nextId' = nextId
          /\ sync'.result = "returned"]_vars

\* a batch was saved while its Scan existed, the Scan was deleted, and a later batch
\* for it was handed over
C30_Witness ==
    /\ last.repo = "save_and_sync" /\ last.result = "gone"
    /\ sync.result = "returned"
    /\ \E r \in directory_snapshot : r.scan_id \notin scans
    /\ directory # {}

\* C38: when the vuln_scan stage ran tools and returned, executed_tools names exactly
\* the tools a task was submitted for, which are the tools tool_results has an entry
\* for; a skipped nuclei is not named.
C38_ExecutedToolsAreSubmitted ==
    (vuln.pc = "returned" /\ vuln.ret.endpoint_count > 0) =>
        /\ Range(vuln.ret.executed_tools) = {vuln.futures[k].name : k \in DOMAIN vuln.futures}
        /\ Range(vuln.ret.executed_tools) = Recorded(vuln.ret.tool_results)

\* C39: when the vuln_scan stage raises because the timeout of an enabled tool cannot
\* be resolved, no tool task of the stage has been submitted.
C39_ConfigErrorBeforeAnySubmit ==
    \A name \in vuln.resolved :
        (vuln.pc = "raised" /\ vuln.tools[ToolIndex(name)].config.timeout \in NotAnInteger) =>
            vuln.futures = <<>>

\* C31: a save_and_sync call persists the snapshot rows and the Directory rows of its
\* batch together or not at all: snapshot rows are added only by a call whose upsert
\* into directory succeeded, and the call that raises leaves both tables as they were.
C31_NoPartialWrite ==
    [][last'.repo = "save_and_sync" =>
          /\ directory_snapshot' # directory_snapshot => sync'.result = "returned"
          /\ sync'.result = "raised" =>
                directory_snapshot' = directory_snapshot /\ directory' = directory]_vars

\* C34: a heartbeat takes an updating or outdated worker to online only when it reports
\* the server's version; with a different, absent or 'unknown' version the worker keeps
\* the status it had.
C34_OnlineOnlyOnMatch ==
    [][HbStep /\ lastHb'.pre \in {"updating", "outdated"} =>
          /\ status'[lastHb'.w] = "online" => lastHb'.ver = SERVER_VERSION
          /\ lastHb'.ver # SERVER_VERSION => status'[lastHb'.w] = lastHb'.pre]_vars

\* a remote-update attempt of worker w is in progress: the update lock is held and
\* the _async_update thread has not finished
UpdateInProgress(w) == lock[w] > 0 /\ updating[w] > 0

\* C35: while a remote-update attempt of a worker is in progress the scheduler is not
\* offered that worker: get_online_workers, from which every scan, delete and cleanup
\* dispatch takes its target, does not return it.
C35_NoDispatchDuringUpdate ==
    \A w \in Workers : UpdateInProgress(w) => w \notin Range(get_online_workers)

\* C36: at the moment select_best_worker returns a worker, on the normal path as on the
\* degraded path after the high-load wait, the Load Registry holds a live record of it.
C36_ReturnedHasLiveRecord ==
    [][\A t \in Threads :
          SelectReturnStep(t) /\ best'[t] # Nil => load'[best'[t]].ttl > 0]_vars

\* C37: once DELETE /workers/{id} has answered, the Load Registry holds no record of
\* that worker, also when a heartbeat of the worker is processed while the delete runs.
C37_NoRecordAfterDelete ==
    \A w \in Workers : destroy[w].response # 0 => load[w].ttl = 0

\* the invocation ended on the success, non-zero-exit or timeout path
EndedPaths == {"ok", "nonzero", "timeout_error", "exhausted"}

\* C40: in the log file of a command that execute_and_wait or execute_stream ran to its
\* end (success, non-zero exit, timeout) the footer was written exactly once and is the
\* last content: nothing is written to the log after it.
C40_FooterIsLast ==
    \A c \in Calls :
        /\ cmd[c].footers > 0 => cmd[c].footers = 1 /\ cmd[c].tail = "footer"
        /\ cmd[c].log /\ cmd[c].result \in EndedPaths => cmd[c].footers = 1

\* the worker ids of a list of cleanup outcomes, in order
IdsOf(results) == [i \in DOMAIN results |-> results[i].worker_id]

CleanupCall(t) == op[t] = "cleanup"

\* C33: execute_cleanup_on_all_workers takes the online workers once, in the order of
\* get_online_workers; every iteration appends the outcome of the next worker of that
\* list, an exception being recorded as success = false, and goes on with the rest; the
\* call returns only when no worker is left, so the result has one entry per online
\* worker in iteration order.
C33_OneOutcomePerWorker ==
    /\ [](\A t \in Threads :
             CleanupCall(t) =>
                 /\ pc[t] = "done" => workers[t] = <<>>
                 /\ pc[t] = "cleanup_loop" => workers[t] # <<>>
                 /\ \A i \in DOMAIN ret[t] : ret[t][i].error => ~ret[t][i].success)
    /\ [][\A t \in Threads :
             /\ pc[t] = "idle" /\ CleanupCall(t)' =>
                    workers'[t] = get_online_workers /\ ret'[t] = <<>>
             /\ pc[t] = "cleanup_loop" /\ ret'[t] # ret[t] =>
                    /\ CleanupCall(t)'
                    /\ Len(ret'[t]) = Len(ret[t]) + 1
                    /\ IdsOf(ret'[t]) \o workers'[t] = IdsOf(ret[t]) \o workers[t]]_vars

\* a cleanup over two online workers returned two entries although the first raised
C33_Witness ==
    \E t \in Threads :
        /\ CleanupCall(t) /\ pc[t] = "done"
        /\ Len(ret[t]) = 2
        /\ ret[t][1].error /\ ~ret[t][1].success
        /\ ret[t][2].success

\* the messages with which a failed dispatch is reported
FailureMessages == {"stderr", "auth_failed", "ssh_error", "exception"}

ScanFlowDone(t) == op[t] = "scan" /\ pc[t] = "done" /\ docker[t] = "executed"

\* C32: execute_scan_flow never raises out of the dispatch to the selected worker: it
\* returns (TRUE, message, container id, worker id) or, when the dispatch failed (SSH
\* authentication, SSH transport, any other exception, non-zero exit of docker),
\* (FALSE, message, nil, nil); and no SSH connection a dispatch opened is open when the
\* dispatcher returns, on success or failure.
C32_DispatchFailureReturned ==
    \A t \in Threads :
        /\ ssh[t] # "open"
        /\ ScanFlowDone(t) =>
              /\ Len(ret[t]) = 4
              /\ ret[t][1] \in BOOLEAN
              /\ ret[t][1] => ret[t][4] = best[t] /\ ret[t][3] = "cid"
              /\ ~ret[t][1] =>
                    ret[t][2] \in FailureMessages /\ ret[t][3] = "none" /\ ret[t][4] = Nil
              /\ ~is_local(best[t]) /\ ret[t][2] \in {"submitted", "stderr", "exception"} =>
                    ssh[t] = "closed"

\* a dispatch to a remote worker failed with the connection open (exec_command or the
\* reads raised): (FALSE, message, nil, nil) came back and the connection is closed
C32_Witness ==
    \E t \in Threads :
        /\ ScanFlowDone(t) /\ ~is_local(best[t])
        /\ ret[t] = <<FALSE, "exception", "none", Nil>>
        /\ ssh[t] = "closed"

====
